---- MODULE Spec2Model ----
(***************************************************************************)
(* Model of car_scraper.py: the batch orchestrator process_csv_file, the   *)
(* two provider clients autotrader_search_vehicle and                      *)
(* carsguide_search_vehicle, and the reconciliation functions              *)
(* autotrader_compare_data and carsguide_compare_data.                     *)
(*                                                                         *)
(* Python values are records [t, n, s]: t is the type tag, n the numeric   *)
(* value, s the characters of a str (a sequence of one-character strings). *)
(* A dict key that is missing is the value Absent.                         *)
(***************************************************************************)
EXTENDS Integers, Sequences, FiniteSets, TLC

(* ------------------------------------------------------------------ *)
(* Bounds of the model                                                 *)
(* ------------------------------------------------------------------ *)

\* number of rows of the input DataFrame
NRows == 2

\* the calls of the compare functions that one run of the reconciliation
\* makes one after the other
MaxEvaluations == 3

(* ------------------------------------------------------------------ *)
(* State                                                               *)
(* ------------------------------------------------------------------ *)

VARIABLES
    loaded,      \* the DataFrame as loaded, with the output columns added
    df,          \* the DataFrame being filled in
    index,       \* the row of the loop of process_csv_file
    pc,          \* the position of the run
    site,        \* the provider whose search is running
    result,      \* the value the search returns (a body, or ResultNone)
    user_agent,  \* headers["user-agent"] of the running search
    cookies,     \* the providers whose landing page set the session's cookies
    trace,       \* the sleeps and requests of the running search, in order
    cmp,         \* a call of the two compare functions: arguments and results
    fallback,    \* a call of build_fallback_search_params: arguments and result
    tx,          \* a GET handed to the adapter of create_session: attempts and outcome
    args,        \* the command line of main, as parsed
    history,     \* the earlier calls of the compare functions in a run
    rerun,       \* process_csv_file run again on its own output: the pass, the
                 \* upstream, and the input and output of the first pass
    urlcall,     \* a call of extract_vehicle_url and the column its value is written to
    files        \* save_results, and the calls of save_json_file of the run

vars == <<loaded, df, index, pc, site, result, user_agent, cookies, trace>>

\* the calls of single functions, which the batch leaves alone
calls == <<cmp, fallback, tx, args, history, rerun, urlcall>>

allvars == <<loaded, df, index, pc, site, result, user_agent, cookies, trace, cmp, fallback, tx,
             args, history, rerun, urlcall, files>>

(* ------------------------------------------------------------------ *)
(* Python values                                                       *)
(* ------------------------------------------------------------------ *)

PyNone == [t |-> "none", n |-> 0, s |-> <<>>]

PyNaN == [t |-> "nan", n |-> 0, s |-> <<>>]

Absent == [t |-> "absent", n |-> 0, s |-> <<>>]

PyInt(k) == [t |-> "int", n |-> k, s |-> <<>>]

\* the float k.0
PyFloat(k) == [t |-> "float", n |-> k, s |-> <<>>]

PyStr(chars) == [t |-> "str", n |-> 0, s |-> chars]

\* bool(v): None, 0, 0.0 and '' are falsy; NaN is a non-zero float, so truthy
truthy(v) ==
    CASE v.t = "none" -> FALSE
      [] v.t = "absent" -> FALSE
      [] v.t = "nan" -> TRUE
      [] v.t = "int" -> v.n # 0
      [] v.t = "float" -> v.n # 0
      [] v.t = "str" -> v.s # <<>>

UpperCase == <<"A","B","C","D","E","F","G","H","I","J","K","L","M",
               "N","O","P","Q","R","S","T","U","V","W","X","Y","Z">>

LowerCase == <<"a","b","c","d","e","f","g","h","i","j","k","l","m",
               "n","o","p","q","r","s","t","u","v","w","x","y","z">>

lower_char(c) ==
    IF \E i \in 1..26 : UpperCase[i] = c
    THEN LowerCase[CHOOSE i \in 1..26 : UpperCase[i] = c]
    ELSE c

\* a variant of str.lower() that leaves the text as it is
str_lower_skipped(s) == s

\* str.lower()
str_lower(s) == [i \in 1..Len(s) |-> lower_char(s[i])]

Whitespace == {" ", "\t", "\n"}

RECURSIVE str_lstrip(_)
str_lstrip(s) ==
    IF s # <<>> /\ Head(s) \in Whitespace THEN str_lstrip(Tail(s)) ELSE s

RECURSIVE str_rstrip(_)
str_rstrip(s) ==
    IF s # <<>> /\ s[Len(s)] \in Whitespace
    THEN str_rstrip(SubSeq(s, 1, Len(s) - 1))
    ELSE s

\* str.strip()
str_strip(s) == str_rstrip(str_lstrip(s))

\* str.replace(',', '')
RECURSIVE str_remove_commas(_)
str_remove_commas(s) ==
    IF s = <<>> THEN <<>>
    ELSE IF Head(s) = "," THEN str_remove_commas(Tail(s))
    ELSE <<Head(s)>> \o str_remove_commas(Tail(s))

Digits == <<"0","1","2","3","4","5","6","7","8","9">>

IsDigit(c) == \E i \in 1..10 : Digits[i] = c

DigitValue(c) == (CHOOSE i \in 1..10 : Digits[i] = c) - 1

RECURSIVE nat_to_str(_)
nat_to_str(k) ==
    IF k < 10 THEN <<Digits[k + 1]>>
    ELSE nat_to_str(k \div 10) \o <<Digits[(k % 10) + 1]>>

int_to_str(k) == IF k < 0 THEN <<"-">> \o nat_to_str(0 - k) ELSE nat_to_str(k)

\* str(v)
py_str(v) ==
    CASE v.t = "none" -> <<"N","o","n","e">>
      [] v.t = "absent" -> <<>>
      [] v.t = "nan" -> <<"n","a","n">>
      [] v.t = "int" -> int_to_str(v.n)
      [] v.t = "float" -> int_to_str(v.n) \o <<".","0">>
      [] v.t = "str" -> v.s

RECURSIVE digits_value(_, _)
digits_value(s, acc) ==
    IF s = <<>> THEN acc ELSE digits_value(Tail(s), 10 * acc + DigitValue(Head(s)))

AllDigits(s) == s # <<>> /\ \A i \in 1..Len(s) : IsDigit(s[i])

\* int(s) for a str s: surrounding whitespace and one sign are accepted,
\* anything else than decimal digits raises ValueError (ok = FALSE)
py_int(s) ==
    LET u == str_strip(s)
        signed == u # <<>> /\ Head(u) \in {"-", "+"}
        body == IF signed THEN Tail(u) ELSE u
    IN  IF AllDigits(body)
        THEN [ok |-> TRUE,
              n |-> IF signed /\ Head(u) = "-"
                    THEN 0 - digits_value(body, 0) ELSE digits_value(body, 0)]
        ELSE [ok |-> FALSE, n |-> 0]

Abs(k) == IF k < 0 THEN 0 - k ELSE k

(* ------------------------------------------------------------------ *)
(* Listings (the '_source' dict of one entry of an API response)       *)
(* ------------------------------------------------------------------ *)

\* A listing is a record of its top-level keys (Absent when the key is
\* missing) and of its two nested groups 'vehicle' and 'price'
\* (present = FALSE when the group is missing).

\* bool(vehicle_data): an empty dict is falsy
dict_truthy(vehicle_data) ==
    \/ vehicle_data.status # Absent
    \/ vehicle_data.model # Absent
    \/ vehicle_data.url # Absent
    \/ vehicle_data.url_cg # Absent
    \/ vehicle_data.vehicle.present
    \/ vehicle_data.price.present

\* dict.get(key) with the default None
dict_get(value) == IF value = Absent THEN PyNone ELSE value

\* the mismatch text f"{csv_field}: CSV={csv_value}, API={api_value_str}"
MismatchText(csv_field, csv_value, api_value_str) ==
    [field |-> csv_field, fmt |-> ": CSV=, API=", csv |-> csv_value, api |-> api_value_str]

\* the mismatch text f"{csv_field}: Couldn't compare"
CouldntCompareText(csv_field) ==
    [field |-> csv_field, fmt |-> ": Couldn't compare", csv |-> <<>>, api |-> <<>>]

PriceTolerance == 100

(* ------------------------------------------------------------------ *)
(* autotrader_compare_data                                             *)
(* ------------------------------------------------------------------ *)

\* comparison_fields, in the dict's iteration order
autotrader_comparison_fields ==
    << <<"Fuel", <<"vehicle", "fuel_type">> >>,
       <<"Model", <<"model">> >>,
       <<"Seats", <<"vehicle", "seats">> >>,
       <<"Doors", <<"vehicle", "doors">> >>,
       <<"Transmission", <<"vehicle", "transmission_type">> >>,
       <<"Tansmission", <<"vehicle", "transmission_type">> >>,
       <<"Price", <<"price", "advertised_price">> >> >>

\* a variant of the walk that ends with '' where a key is missing
autotrader_api_value_default_text(vehicle_data, api_path) ==
    IF Len(api_path) = 1
    THEN IF vehicle_data[api_path[1]] = Absent
         THEN PyStr(<<>>) ELSE vehicle_data[api_path[1]]
    ELSE IF vehicle_data[api_path[1]].present
              /\ vehicle_data[api_path[1]][api_path[2]] # Absent
         THEN vehicle_data[api_path[1]][api_path[2]]
         ELSE PyStr(<<>>)

\* the walk along api_path: None as soon as a key is missing
autotrader_api_value(vehicle_data, api_path) ==
    IF Len(api_path) = 1
    THEN dict_get(vehicle_data[api_path[1]])
    ELSE IF vehicle_data[api_path[1]].present
         THEN dict_get(vehicle_data[api_path[1]][api_path[2]])
         ELSE PyNone

\* the body of the loop for one csv_field: the mismatches it appends
autotrader_compare_field(csv_data, vehicle_data, csv_field, api_path) ==
    IF csv_data[csv_field] # Absent /\ truthy(csv_data[csv_field])
    THEN LET api_value == autotrader_api_value(vehicle_data, api_path)
         IN  IF csv_field = "Price" /\ api_value # PyNone
             THEN LET csv_price == py_int(str_remove_commas(str_strip(py_str(csv_data[csv_field]))))
                      api_price == py_int(str_remove_commas(str_strip(py_str(api_value))))
                  IN  IF ~csv_price.ok \/ ~api_price.ok
                      THEN <<CouldntCompareText(csv_field)>>
                      ELSE IF Abs(csv_price.n - api_price.n) > PriceTolerance
                           THEN <<MismatchText(csv_field, int_to_str(csv_price.n),
                                               int_to_str(api_price.n))>>
                           ELSE <<>>
             ELSE IF api_value # PyNone
                  THEN LET csv_value == str_strip(py_str(csv_data[csv_field]))
                           api_value_str == str_strip(py_str(api_value))
                       IN  IF str_lower(csv_value) # str_lower(api_value_str)
                           THEN <<MismatchText(csv_field, csv_value, api_value_str)>>
                           ELSE <<>>
                  ELSE <<>>
    ELSE <<>>

RECURSIVE autotrader_compare_fields(_, _, _)
autotrader_compare_fields(csv_data, vehicle_data, i) ==
    IF i > Len(autotrader_comparison_fields) THEN <<>>
    ELSE autotrader_compare_field(csv_data, vehicle_data,
                                  autotrader_comparison_fields[i][1],
                                  autotrader_comparison_fields[i][2])
         \o autotrader_compare_fields(csv_data, vehicle_data, i + 1)

\* a variant whose list of mismatches is not created by the call: it goes on
\* from the list that the call before it left
autotrader_compare_live_carrying(csv_data, vehicle_data) ==
    LET left == IF history = <<>> THEN <<>>
                ELSE history[Len(history)].autotrader.mismatched
        mismatched == left \o autotrader_compare_fields(csv_data, vehicle_data, 1)
    IN  IF mismatched # <<>>
        THEN [exc |-> "", status |-> "Mismatched", mismatched |-> mismatched]
        ELSE [exc |-> "", status |-> "Found", mismatched |-> <<>>]

\* the field comparison and the status it determines
autotrader_compare_live(csv_data, vehicle_data) ==
    LET mismatched == autotrader_compare_fields(csv_data, vehicle_data, 1)
    IN  IF mismatched # <<>>
        THEN [exc |-> "", status |-> "Mismatched", mismatched |-> mismatched]
        ELSE [exc |-> "", status |-> "Found", mismatched |-> <<>>]

\* a variant that compares the listing status without lower()
autotrader_compare_data_case_sensitive(csv_data, vehicle_data) ==
    IF ~dict_truthy(vehicle_data)
    THEN [exc |-> "", status |-> "Not Found", mismatched |-> <<>>]
    ELSE LET status == dict_get(vehicle_data.status)
         IN  IF truthy(status) /\ status.t # "str"
             THEN [exc |-> "AttributeError: lower", status |-> "", mismatched |-> <<>>]
             ELSE IF truthy(status) /\ status.s # <<"l","i","v","e">>
                       /\ status.s = <<"s","o","l","d">>
                  THEN [exc |-> "", status |-> "Sold", mismatched |-> <<>>]
                  ELSE IF truthy(status) /\ status.s # <<"l","i","v","e">>
                            /\ status.s = <<"o","n"," ","o","f","f","e","r">>
                       THEN [exc |-> "", status |-> "On Offer", mismatched |-> <<>>]
                       ELSE autotrader_compare_live(csv_data, vehicle_data)

\* autotrader_compare_data(csv_data, vehicle_data): (status, mismatched_fields),
\* or the exception it raises (status.lower() on a status that is no str)
autotrader_compare_data(csv_data, vehicle_data) ==
    IF ~dict_truthy(vehicle_data)
    THEN [exc |-> "", status |-> "Not Found", mismatched |-> <<>>]
    ELSE LET status == dict_get(vehicle_data.status)
         IN  IF truthy(status) /\ status.t # "str"
             THEN [exc |-> "AttributeError: lower", status |-> "", mismatched |-> <<>>]
             ELSE IF truthy(status) /\ str_lower(status.s) # <<"l","i","v","e">>
                       /\ str_lower(status.s) = <<"s","o","l","d">>
                  THEN [exc |-> "", status |-> "Sold", mismatched |-> <<>>]
                  ELSE IF truthy(status) /\ str_lower(status.s) # <<"l","i","v","e">>
                            /\ str_lower(status.s) = <<"o","n"," ","o","f","f","e","r">>
                       THEN [exc |-> "", status |-> "On Offer", mismatched |-> <<>>]
                       ELSE autotrader_compare_live(csv_data, vehicle_data)

(* ------------------------------------------------------------------ *)
(* carsguide_compare_data                                              *)
(* ------------------------------------------------------------------ *)

\* comparison_fields, in the dict's iteration order
carsguide_comparison_fields ==
    << <<"Fuel", <<"vehicle", "fuel_type">> >>,
       <<"Model", <<"model">> >>,
       <<"Seats", <<"vehicle", "seats">> >>,
       <<"Doors", <<"vehicle", "doors">> >>,
       <<"Transmission", <<"vehicle", "transmission_type">> >>,
       <<"Tansmission", <<"vehicle", "transmission_type">> >>,
       <<"Price", <<"price", "advertised_price">> >> >>

\* the walk along api_path: None as soon as a key is missing
carsguide_api_value(vehicle_data, api_path) ==
    IF Len(api_path) = 1
    THEN dict_get(vehicle_data[api_path[1]])
    ELSE IF vehicle_data[api_path[1]].present
         THEN dict_get(vehicle_data[api_path[1]][api_path[2]])
         ELSE PyNone

\* the body of the loop for one csv_field: the mismatches it appends
carsguide_compare_field(csv_data, vehicle_data, csv_field, api_path) ==
    IF csv_data[csv_field] # Absent /\ truthy(csv_data[csv_field])
    THEN LET api_value == carsguide_api_value(vehicle_data, api_path)
         IN  IF csv_field = "Price" /\ api_value # PyNone
             THEN LET csv_price == py_int(str_remove_commas(str_strip(py_str(csv_data[csv_field]))))
                      api_price == py_int(str_remove_commas(str_strip(py_str(api_value))))
                  IN  IF ~csv_price.ok \/ ~api_price.ok
                      THEN <<CouldntCompareText(csv_field)>>
                      ELSE IF Abs(csv_price.n - api_price.n) > PriceTolerance
                           THEN <<MismatchText(csv_field, int_to_str(csv_price.n),
                                               int_to_str(api_price.n))>>
                           ELSE <<>>
             ELSE IF api_value # PyNone
                  THEN LET csv_value == str_strip(py_str(csv_data[csv_field]))
                           api_value_str == str_strip(py_str(api_value))
                       IN  IF str_lower(csv_value) # str_lower(api_value_str)
                           THEN <<MismatchText(csv_field, csv_value, api_value_str)>>
                           ELSE <<>>
                  ELSE <<>>
    ELSE <<>>

RECURSIVE carsguide_compare_fields(_, _, _)
carsguide_compare_fields(csv_data, vehicle_data, i) ==
    IF i > Len(carsguide_comparison_fields) THEN <<>>
    ELSE carsguide_compare_field(csv_data, vehicle_data,
                                  carsguide_comparison_fields[i][1],
                                  carsguide_comparison_fields[i][2])
         \o carsguide_compare_fields(csv_data, vehicle_data, i + 1)

\* the field comparison and the status it determines
carsguide_compare_live(csv_data, vehicle_data) ==
    LET mismatched == carsguide_compare_fields(csv_data, vehicle_data, 1)
    IN  IF mismatched # <<>>
        THEN [exc |-> "", status |-> "Mismatched", mismatched |-> mismatched]
        ELSE [exc |-> "", status |-> "Found", mismatched |-> <<>>]

\* a variant without the short-circuit on the listing status
carsguide_compare_data_no_shortcut(csv_data, vehicle_data) ==
    IF ~dict_truthy(vehicle_data)
    THEN [exc |-> "", status |-> "Not Found", mismatched |-> <<>>]
    ELSE carsguide_compare_live(csv_data, vehicle_data)

\* carsguide_compare_data(csv_data, vehicle_data): (status, mismatched_fields),
\* or the exception it raises (status.lower() on a status that is no str)
carsguide_compare_data(csv_data, vehicle_data) ==
    IF ~dict_truthy(vehicle_data)
    THEN [exc |-> "", status |-> "Not Found", mismatched |-> <<>>]
    ELSE LET status == dict_get(vehicle_data.status)
         IN  IF truthy(status) /\ status.t # "str"
             THEN [exc |-> "AttributeError: lower", status |-> "", mismatched |-> <<>>]
             ELSE IF truthy(status) /\ str_lower(status.s) # <<"l","i","v","e">>
                       /\ str_lower(status.s) = <<"s","o","l","d">>
                  THEN [exc |-> "", status |-> "Sold", mismatched |-> <<>>]
                  ELSE IF truthy(status) /\ str_lower(status.s) # <<"l","i","v","e">>
                            /\ str_lower(status.s) = <<"o","n"," ","o","f","f","e","r">>
                       THEN [exc |-> "", status |-> "On Offer", mismatched |-> <<>>]
                       ELSE carsguide_compare_live(csv_data, vehicle_data)


(* ------------------------------------------------------------------ *)
(* Helpers of the search and of the batch                              *)
(* ------------------------------------------------------------------ *)

\* pd.isna(value) for a scalar
pd_isna(v) == v.t \in {"nan", "none"}

EmptyUrl == [domain |-> "", path |-> <<>>]

\* a variant that reads the key 'url' only
extract_vehicle_url_without_url_cg(vehicle_data, site_type) ==
    IF ~dict_truthy(vehicle_data) THEN EmptyUrl
    ELSE LET url_path == IF vehicle_data.url = Absent THEN PyStr(<<>>) ELSE vehicle_data.url
         IN  IF ~truthy(url_path) THEN EmptyUrl
             ELSE IF site_type = "autotrader"
                  THEN [domain |-> "https://www.autotrader.com.au/", path |-> py_str(url_path)]
                  ELSE [domain |-> "https://www.carsguide.com.au/", path |-> py_str(url_path)]

\* extract_vehicle_url(vehicle_data, site_type)
extract_vehicle_url(vehicle_data, site_type) ==
    IF ~dict_truthy(vehicle_data) THEN EmptyUrl
    ELSE LET url == IF vehicle_data.url = Absent THEN PyStr(<<>>) ELSE vehicle_data.url
             url_cg == IF vehicle_data.url_cg = Absent THEN PyStr(<<>>) ELSE vehicle_data.url_cg
             url_path == IF truthy(url) THEN url ELSE url_cg
         IN  IF ~truthy(url_path) THEN EmptyUrl
             ELSE IF site_type = "autotrader"
                  THEN [domain |-> "https://www.autotrader.com.au/", path |-> py_str(url_path)]
                  ELSE IF site_type = "carsguide"
                       THEN [domain |-> "https://www.carsguide.com.au/", path |-> py_str(url_path)]
                       ELSE [domain |-> "", path |-> py_str(url_path)]

DefaultDealerId == PyStr(<<"1","2","7","5","1">>)

\* the query parameters of a request; a parameter that is not sent is Absent
NoParams ==
    [stock_no |-> Absent, dealer_id |-> Absent, source |-> Absent, ipLookup |-> Absent,
     sorting_variation |-> Absent, paginate |-> Absent, make |-> Absent, model |-> Absent,
     manu_year |-> Absent, priceFrom |-> Absent, priceTo |-> Absent,
     odometerFrom |-> Absent, odometerTo |-> Absent]

RangeDelta == 100

\* the text of a cell that is present, truthy and not NaN, stripped; else Absent
fallback_text_param(cell) ==
    IF cell # Absent /\ truthy(cell) /\ ~pd_isna(cell)
    THEN PyStr(str_strip(py_str(cell)))
    ELSE Absent

\* the bound value + delta of a numeric cell, as text; Absent when the cell
\* is missing, falsy, NaN or does not parse as an integer
fallback_range_param(cell, delta) ==
    IF cell # Absent /\ truthy(cell) /\ ~pd_isna(cell)
    THEN LET parsed == py_int(str_remove_commas(str_strip(py_str(cell))))
         IN  IF parsed.ok THEN PyStr(int_to_str(parsed.n + delta)) ELSE Absent
    ELSE Absent

\* build_fallback_search_params(csv_row, dealer_id, source)
build_fallback_search_params(csv_row, dealer_id, source) ==
    [NoParams EXCEPT
        !.dealer_id = dealer_id,
        !.ipLookup = PyStr(<<"1">>),
        !.sorting_variation = PyStr(<<"s","m","a","r","t","_","s","o","r","t","_","3">>),
        !.paginate = PyStr(<<"2","6">>),
        !.source = IF truthy(source) THEN source ELSE Absent,
        !.make = fallback_text_param(csv_row.Make),
        !.model = fallback_text_param(csv_row.Model),
        !.manu_year = fallback_text_param(csv_row.Year),
        !.priceFrom = fallback_range_param(csv_row.Price, 0 - RangeDelta),
        !.priceTo = fallback_range_param(csv_row.Price, RangeDelta),
        !.odometerFrom = fallback_range_param(csv_row.KM, 0 - RangeDelta),
        !.odometerTo = fallback_range_param(csv_row.KM, RangeDelta)]

\* the params of the primary query of autotrader_search_vehicle
autotrader_primary_params(stock_no, dealer_id) ==
    [NoParams EXCEPT !.stock_no = PyStr(stock_no), !.dealer_id = dealer_id]

\* the params of the primary query of carsguide_search_vehicle
carsguide_primary_params(stock_no, dealer_id, make) ==
    [NoParams EXCEPT
        !.stock_no = PyStr(stock_no),
        !.dealer_id = dealer_id,
        !.source = PyStr(<<"C","G">>),
        !.ipLookup = PyStr(<<"1">>),
        !.sorting_variation = PyStr(<<"s","m","a","r","t","_","s","o","r","t","_","3">>),
        !.paginate = PyStr(<<"2","6">>),
        !.make = IF truthy(make) THEN make ELSE Absent]

(* ------------------------------------------------------------------ *)
(* The inputs of the batch: DataFrames and API responses               *)
(* ------------------------------------------------------------------ *)

NoGroup ==
    [present |-> FALSE, fuel_type |-> Absent, seats |-> Absent, doors |-> Absent,
     transmission_type |-> Absent, advertised_price |-> Absent]

\* the empty dict {}
EmptyListing ==
    [status |-> Absent, model |-> Absent, url |-> Absent, url_cg |-> Absent,
     vehicle |-> NoGroup, price |-> NoGroup]

PriceGroup(p) == [NoGroup EXCEPT !.present = TRUE, !.advertised_price = p]

\* a live listing that agrees with the rows of the batch
ListingLive ==
    [EmptyListing EXCEPT
        !.status = PyStr(<<"l","i","v","e">>),
        !.model = PyStr(<<"R","i","o">>),
        !.url = PyStr(<<"c","a","r","s","/","1">>),
        !.price = PriceGroup(PyInt(20050))]

\* a sold listing that differs from the rows of the batch
ListingSold ==
    [EmptyListing EXCEPT
        !.status = PyStr(<<"S","o","l","d">>),
        !.model = PyStr(<<"C","e","r","a","t","o">>),
        !.price = PriceGroup(PyInt(30000))]

\* an entry of 'data': a dict with or without the key '_source'
Entry(listing) == [has_source |-> TRUE, source |-> listing]

EntryNoSource == [has_source |-> FALSE, source |-> EmptyListing]

\* the 'data' lists of the responses: none, one or two entries
BatchLists ==
    {<<>>,
     <<Entry(ListingLive)>>,
     <<EntryNoSource>>,
     <<Entry(ListingSold), EntryNoSource>>}

\* the body of a response: no JSON at all, a dict without 'data', a dict
\* whose 'data' is null, or a dict whose 'data' is a list of entries
BodyInvalid == [kind |-> "invalid", data |-> <<>>]

BodyNoData == [kind |-> "nodata", data |-> <<>>]

BodyNullData == [kind |-> "null", data |-> <<>>]

BodyList(entries) == [kind |-> "list", data |-> entries]

Bodies ==
    {BodyInvalid, BodyNoData, BodyNullData}
        \cup {BodyList(q) : q \in BatchLists}

HttpOk == 200

HttpForbidden == 403

HttpOther == 404

\* what session.get(...) gives the search functions, which take the session
\* as a parameter: a response with a status code and a body, or an
\* exception. The re-sending that the adapter of create_session does below
\* session.get is not a step of this specification.
Responses ==
    {[raises |-> FALSE, status_code |-> HttpOk, body |-> b] : b \in Bodies}
        \cup {[raises |-> FALSE, status_code |-> c, body |-> BodyInvalid] :
                 c \in {HttpForbidden, HttpOther}}
        \cup {[raises |-> TRUE, status_code |-> 0, body |-> BodyInvalid]}

\* the landing page: only its status code is read
PageResponses ==
    {[raises |-> FALSE, status_code |-> c, body |-> BodyInvalid] :
        c \in {HttpOk, HttpForbidden, HttpOther}}
        \cup {[raises |-> TRUE, status_code |-> 0, body |-> BodyInvalid]}

\* the value None returned by a search, as a body
ResultNone == [kind |-> "none", data |-> <<>>]

EmptyNote == [text |-> "", arg |-> "", parts |-> <<>>]

Note(text) == [text |-> text, arg |-> "", parts |-> <<>>]

\* '; '.join(mismatches)
JoinedNote(mismatches) == [text |-> "", arg |-> "", parts |-> mismatches]

\* f'Error processing: {str(e)}'
ErrorNote(message) == [text |-> "Error processing: ", arg |-> message, parts |-> <<>>]

\* a row as loaded by pd.read_csv, with the six output columns added as ''
Row(year, stock_no) ==
    [Year |-> year, StockNo |-> stock_no,
     Make |-> PyStr(<<"K","i","a">>), Model |-> PyStr(<<"R","i","o">>),
     Price |-> PyInt(20000), KM |-> PyInt(5000),
     Fuel |-> Absent, Seats |-> Absent, Doors |-> Absent,
     Transmission |-> Absent, Tansmission |-> Absent,
     Autotrader |-> "", Autotrader_Notes |-> EmptyNote, Autotrader_URL |-> EmptyUrl,
     Carsguide |-> "", Carsguide_Notes |-> EmptyNote, Carsguide_URL |-> EmptyUrl]

\* the cells of a Year column: int64 when no cell is empty, float64 with NaN
\* for the empty cells otherwise
YearCells == {PyInt(2020), PyFloat(2020), PyNaN}

\* the cells of a StockNo column of dtype object
StockNoCells == {PyStr(<<"A","1">>), PyNaN}

ColumnWellTyped(frame) ==
    \/ \A i \in 1..NRows : frame[i].Year.t = "int"
    \/ /\ \A i \in 1..NRows : frame[i].Year.t \in {"float", "nan"}
       /\ \E i \in 1..NRows : frame[i].Year.t = "nan"
    \/ \A i \in 1..NRows : frame[i].Year = Absent

\* the cells of a frame that make the key of a row incomplete
Anomalies(frame) ==
    {ic \in (1..NRows) \X {"Year", "StockNo"} : frame[ic[1]][ic[2]].t \in {"nan", "absent"}}

\* the DataFrames of the batch: a column is missing for every row or for
\* none; either one column is missing, or at most one cell is empty
Frames ==
    {f \in [1..NRows -> {Row(y, s) : y \in YearCells \cup {Absent},
                                      s \in StockNoCells \cup {Absent}}] :
        /\ ColumnWellTyped(f)
        /\ (\E i \in 1..NRows : f[i].StockNo = Absent)
               => (\A i \in 1..NRows : f[i].StockNo = Absent)
        /\ \/ Cardinality(Anomalies(f)) <= 1
           \/ \E c \in {"Year", "StockNo"} :
                 Anomalies(f) = {<<i, c>> : i \in 1..NRows} /\ f[1][c] = Absent}

DefaultUserAgent ==
    "Mozilla/5.0 (Windows NT 10.0; Win64; x64) AppleWebKit/537.36 (KHTML, like Gecko) Chrome/139.0.0.0 Safari/537.36"

AutotraderRetryUserAgent ==
    "Mozilla/5.0 (Windows NT 10.0; Win64; x64) AppleWebKit/537.36 (KHTML, like Gecko) Chrome/139.0.0.0 Safari/537.36 Edg/139.0.0.0"

CarsguideRetryUserAgent ==
    "Mozilla/5.0 (X11; Linux x86_64) AppleWebKit/537.36 (KHTML, like Gecko) Chrome/139.0.0.0 Safari/537.36"

\* the number of listings a body holds, -1 when the body is no JSON
ListingCount(body) ==
    IF body.kind = "list" THEN Len(body.data)
    ELSE IF body.kind \in {"nodata", "null"} THEN 0
    ELSE 0 - 1

\* time.sleep(random.uniform(lo, hi))
SleepEvent(lo, hi) ==
    [ev |-> "sleep", kind |-> "", lo |-> lo, hi |-> hi, ua |-> "", params |-> NoParams,
     status_code |-> 0, count |-> 0 - 1]

\* headers["user-agent"] = ua
HeaderEvent(ua) ==
    [ev |-> "header", kind |-> "", lo |-> 0, hi |-> 0, ua |-> ua, params |-> NoParams,
     status_code |-> 0, count |-> 0 - 1]

\* session.get(...) and what it returned (status_code 0: it raised)
GetEvent(kind, ua, params, r) ==
    [ev |-> "get", kind |-> kind, lo |-> 0, hi |-> 0, ua |-> ua, params |-> params,
     status_code |-> r.status_code,
     count |-> IF r.status_code = HttpOk THEN ListingCount(r.body) ELSE 0 - 1]

\* combined_stock_no = str(year) + str(stock_no)
combined_stock_no(row) == py_str(row.Year) \o py_str(row.StockNo)

\* the argument make of carsguide_search_vehicle
carsguide_make(row) ==
    LET make == PyStr(py_str(row.Make))
    IN  IF truthy(make) /\ ~pd_isna(make) THEN make ELSE PyNone

\* result.get('data') and len(result['data']) > 0
has_listings(body) == body.kind = "list" /\ Len(body.data) > 0

NoResult == [exc |-> "", status |-> "", mismatched |-> <<>>]

\* no call of the compare functions is being looked at
CmpIdle ==
    [phase |-> "idle", csv_data |-> Row(Absent, Absent), vehicle_data |-> EmptyListing,
     autotrader |-> NoResult, carsguide |-> NoResult]

\* Retry(total=5, ...): the re-sends the adapter allows for one request
RetryTotal == 5

\* status_forcelist
status_forcelist == {403, 429, 500, 502, 503, 504}

\* allowed_methods
allowed_methods == {"GET"}

\* the statuses on which urllib3 honours a Retry-After header
\* (Retry.RETRY_AFTER_STATUS_CODES; respect_retry_after_header is left at
\* its default True)
RETRY_AFTER_STATUS_CODES == {413, 429, 503}

\* what one attempt ends in: a response, or an error without a response
\* (connection refused, reset, timeout)
NoOutcome == [kind |-> "none", status |-> 0, retry_after |-> FALSE]

AttemptOutcomes ==
    {[kind |-> "response", status |-> s, retry_after |-> ra] :
        s \in {200, 404, 413} \cup status_forcelist, ra \in BOOLEAN}
        \cup {[kind |-> "error", status |-> 0, retry_after |-> FALSE]}

\* no request is being looked at
TxIdle == [phase |-> "idle", method |-> "GET", total |-> RetryTotal, attempts |-> 0,
           last |-> NoOutcome]

\* no call of build_fallback_search_params is being looked at
\* the parsed command line when main is not what runs: the defaults of the
\* parser (api 'both', dealer_id "12751", the others None)
ArgsIdle ==
    [csv |-> PyNone, stock_no |-> PyNone, api |-> "both", make |-> PyNone,
     dealer_id |-> DefaultDealerId, save |-> FALSE]

\* save_results=False, the default, and no call of save_json_file
FilesIdle == [save_results |-> FALSE, calls |-> <<>>]

\* no call of extract_vehicle_url is being looked at
UrlIdle ==
    [phase |-> "idle", vehicle_data |-> EmptyListing, site_type |-> "autotrader",
     Autotrader_URL |-> EmptyUrl, Carsguide_URL |-> EmptyUrl]

\* process_csv_file is run once, on any responses
RerunIdle == [pass |-> 0, upstream |-> <<>>, original |-> <<>>, first |-> <<>>]

FallbackIdle ==
    [phase |-> "idle", csv_row |-> Row(Absent, Absent), dealer_id |-> DefaultDealerId,
     source |-> PyNone, params |-> NoParams]

Init ==
    /\ loaded \in Frames
    /\ df = loaded
    /\ index = 1
    /\ pc = "row"
    /\ site = "autotrader"
    /\ result = ResultNone
    /\ user_agent = DefaultUserAgent
    /\ cookies = {}
    /\ trace = <<>>
    /\ cmp = CmpIdle
    /\ fallback = FallbackIdle
    /\ tx = TxIdle
    /\ args = ArgsIdle
    /\ history = <<>>
    /\ urlcall = UrlIdle
    /\ rerun = RerunIdle
    /\ files = FilesIdle

(* ------------------------------------------------------------------ *)
(* process_csv_file: the head of the loop body                         *)
(* ------------------------------------------------------------------ *)

\* a variant that also skips a row that has a status from an earlier run
row_missing_key_or_searched(row) ==
    LET year == PyStr(py_str(row.Year))
        stock_no == PyStr(py_str(row.StockNo))
    IN  \/ ~truthy(year) \/ ~truthy(stock_no) \/ pd_isna(year) \/ pd_isna(stock_no)
        \/ row.Autotrader # ""

\* not year or not stock_no or pd.isna(year) or pd.isna(stock_no), where
\* year = str(row.get('Year', '')) and stock_no = str(row.get('StockNo', ''))
\* are str values, for which pd.isna is False
row_missing_key(row) ==
    LET year == PyStr(py_str(row.Year))
        stock_no == PyStr(py_str(row.StockNo))
    IN  ~truthy(year) \/ ~truthy(stock_no) \/ pd_isna(year) \/ pd_isna(stock_no)

\* a variant of the skip branch that fills in the AutoTrader columns only
write_not_searched_autotrader_only(row) ==
    [row EXCEPT
        !.Autotrader = "Not Searched",
        !.Autotrader_Notes = Note("Missing Year or StockNo"),
        !.Autotrader_URL = EmptyUrl]

\* a variant of the skip branch that also fills the empty key cells in
write_not_searched_filling_key(row) ==
    [row EXCEPT
        !.Year = IF @ \in {PyNaN, Absent} THEN PyStr(<<>>) ELSE @,
        !.StockNo = IF @ \in {PyNaN, Absent} THEN PyStr(<<>>) ELSE @,
        !.Autotrader = "Not Searched",
        !.Autotrader_Notes = Note("Missing Year or StockNo"),
        !.Autotrader_URL = EmptyUrl,
        !.Carsguide = "Not Searched",
        !.Carsguide_Notes = Note("Missing Year or StockNo"),
        !.Carsguide_URL = EmptyUrl]

\* the six df.at[index, ...] assignments of the skip branch
write_not_searched(row) ==
    [row EXCEPT
        !.Autotrader = "Not Searched",
        !.Autotrader_Notes = Note("Missing Year or StockNo"),
        !.Autotrader_URL = EmptyUrl,
        !.Carsguide = "Not Searched",
        !.Carsguide_Notes = Note("Missing Year or StockNo"),
        !.Carsguide_URL = EmptyUrl]

\* a variant of the except branch that fills in the AutoTrader columns only
write_error_autotrader_only(row, message) ==
    [row EXCEPT
        !.Autotrader = "Error",
        !.Autotrader_Notes = ErrorNote(message),
        !.Autotrader_URL = EmptyUrl]

\* a variant of the except branch that fills in the Carsguide columns only
write_error_carsguide_only(row, message) ==
    [row EXCEPT
        !.Carsguide = "Error",
        !.Carsguide_Notes = ErrorNote(message),
        !.Carsguide_URL = EmptyUrl]

\* the six df.at[index, ...] assignments of the except branch
write_error(row, message) ==
    [row EXCEPT
        !.Autotrader = "Error",
        !.Autotrader_Notes = ErrorNote(message),
        !.Autotrader_URL = EmptyUrl,
        !.Carsguide = "Error",
        !.Carsguide_Notes = ErrorNote(message),
        !.Carsguide_URL = EmptyUrl]

\* a variant in which the loop stays on the row it has just processed
next_index_same_row(i) == i

\* for index, row in df.iterrows(): the row that follows row i
next_index(i) == i + 1

\* the start of an iteration: the row is skipped, or the AutoTrader search
\* is called
RowStart ==
    /\ pc = "row"
    /\ index <= NRows
    /\ IF row_missing_key(df[index])
       THEN /\ df' = [df EXCEPT ![index] = write_not_searched(df[index])]
            /\ index' = next_index(index)
            /\ pc' = "row"
       ELSE /\ pc' = "bootstrap"
            /\ UNCHANGED <<df, index>>
    /\ site' = "autotrader"
    /\ trace' = <<>>
    /\ UNCHANGED <<loaded, result, user_agent, cookies, calls, files>>

(* ------------------------------------------------------------------ *)
(* autotrader_search_vehicle and carsguide_search_vehicle              *)
(* ------------------------------------------------------------------ *)

primary_params(s, row) ==
    IF s = "autotrader"
    THEN autotrader_primary_params(combined_stock_no(row), DefaultDealerId)
    ELSE carsguide_primary_params(combined_stock_no(row), DefaultDealerId, carsguide_make(row))

\* a variant in which the fallback query of Carsguide is built without
\* source="CG"
fallback_params_without_source(s, row) ==
    build_fallback_search_params(row, DefaultDealerId, PyNone)

fallback_params(s, row) ==
    IF s = "autotrader"
    THEN build_fallback_search_params(row, DefaultDealerId, PyNone)
    ELSE build_fallback_search_params(row, DefaultDealerId, PyStr(<<"C","G">>))

\* a variant that keeps the user agent of the first attempt
retry_user_agent_unchanged(s) == DefaultUserAgent

retry_user_agent(s) ==
    IF s = "autotrader" THEN AutotraderRetryUserAgent ELSE CarsguideRetryUserAgent

\* what session.get(...) can give for a request of the running search: any
\* response, or, when the upstream is held fixed over two passes, the
\* response that the upstream gives to that request
Served(kind) ==
    IF rerun.pass = 0
    THEN IF kind = "bootstrap" THEN PageResponses ELSE Responses
    ELSE {rerun.upstream[<<site, kind>>]}

\* a variant in which every bootstrap starts from a session of its own
cookies_after_fresh_session(jar, s, ok) == IF ok THEN {s} ELSE {}

\* the cookie jar of the session after a landing page GET of the provider
\* s: the one session of the run keeps what it held and, when the page was
\* served, holds the provider's cookies too
cookies_after(jar, s, ok) == IF ok THEN jar \cup {s} ELSE jar

\* <site>_get_cookies(session) at the head of the search, and add_delay()
GetCookies ==
    /\ pc = "bootstrap"
    /\ \E r \in Served("bootstrap") :
          LET ok == ~r.raises /\ r.status_code = HttpOk
          IN  /\ trace' = trace \o <<GetEvent("bootstrap", DefaultUserAgent, NoParams, r)>>
                              \o (IF ok THEN <<SleepEvent(1, 3)>> ELSE <<>>)
              /\ cookies' = cookies_after(cookies, site, ok)
              /\ pc' = IF ok THEN "primary" ELSE "process"
              /\ result' = IF ok THEN result ELSE ResultNone
    /\ user_agent' = DefaultUserAgent
    /\ UNCHANGED <<loaded, df, index, site, calls, files>>

\* the primary query and the branch on its response
PrimaryQuery ==
    /\ pc = "primary"
    /\ \E r \in Served("primary") :
          LET sent == GetEvent("primary", user_agent, primary_params(site, df[index]), r)
          IN  IF r.raises
              THEN /\ trace' = Append(trace, sent)
                   /\ result' = ResultNone /\ pc' = "process"
                   /\ UNCHANGED user_agent
              ELSE IF r.status_code = HttpOk
              THEN IF r.body.kind = "invalid"
                   THEN /\ trace' = Append(trace, sent)
                        /\ result' = ResultNone /\ pc' = "process"
                        /\ UNCHANGED user_agent
                   ELSE IF has_listings(r.body)
                        THEN /\ trace' = Append(trace, sent)
                             /\ result' = r.body /\ pc' = "process"
                             /\ UNCHANGED user_agent
                        ELSE /\ trace' = trace \o <<sent, SleepEvent(1, 2)>>
                             /\ result' = r.body /\ pc' = "fallback"
                             /\ UNCHANGED user_agent
              ELSE IF r.status_code = HttpForbidden
              THEN /\ trace' = trace \o <<sent, SleepEvent(5, 8),
                                          HeaderEvent(retry_user_agent(site))>>
                   /\ user_agent' = retry_user_agent(site)
                   /\ pc' = "rebootstrap"
                   /\ UNCHANGED result
              ELSE /\ trace' = Append(trace, sent)
                   /\ result' = ResultNone /\ pc' = "process"
                   /\ UNCHANGED user_agent
    /\ UNCHANGED <<loaded, df, index, site, cookies, calls, files>>

\* the fallback query: a non-200 response and an empty one both leave the
\* original empty result to be returned
FallbackQuery ==
    /\ pc = "fallback"
    /\ \E r \in Served("fallback") :
          /\ trace' = Append(trace, GetEvent("fallback", user_agent,
                                             fallback_params(site, df[index]), r))
          /\ result' = IF r.raises THEN ResultNone
                       ELSE IF r.status_code = HttpOk
                            THEN IF r.body.kind = "invalid" THEN ResultNone
                                 ELSE IF has_listings(r.body) THEN r.body ELSE result
                            ELSE result
    /\ pc' = "process"
    /\ UNCHANGED <<loaded, df, index, site, user_agent, cookies, calls, files>>

\* <site>_get_cookies(session) after a 403: its return value is not read
ReBootstrap ==
    /\ pc = "rebootstrap"
    /\ \E r \in Served("bootstrap") :
          /\ trace' = Append(trace, GetEvent("bootstrap", DefaultUserAgent, NoParams, r))
          /\ cookies' = cookies_after(cookies, site, ~r.raises /\ r.status_code = HttpOk)
    /\ pc' = "retry"
    /\ UNCHANGED <<loaded, df, index, site, result, user_agent, calls, files>>

\* a variant in which the primary query sent again is followed by the
\* fallback query when it returns no listing
RetryQueryThenFallback ==
    /\ pc = "retry"
    /\ \E r \in Served("primary") :
          /\ trace' = Append(trace, GetEvent("primary", user_agent,
                                             primary_params(site, df[index]), r))
          /\ result' = IF ~r.raises /\ r.status_code = HttpOk /\ r.body.kind # "invalid"
                       THEN r.body ELSE ResultNone
          /\ pc' = IF ~r.raises /\ r.status_code = HttpOk /\ r.body.kind = "list"
                      /\ ~has_listings(r.body)
                   THEN "fallback" ELSE "process"
    /\ UNCHANGED <<loaded, df, index, site, user_agent, cookies, calls, files>>

\* the primary query sent again: response.json() on 200, None otherwise
RetryQuery ==
    /\ pc = "retry"
    /\ \E r \in Served("primary") :
          /\ trace' = Append(trace, GetEvent("primary", user_agent,
                                             primary_params(site, df[index]), r))
          /\ result' = IF ~r.raises /\ r.status_code = HttpOk /\ r.body.kind # "invalid"
                       THEN r.body ELSE ResultNone
    /\ pc' = "process"
    /\ UNCHANGED <<loaded, df, index, site, user_agent, cookies, calls, files>>

(* ------------------------------------------------------------------ *)
(* process_csv_file: the result of a search written into the row       *)
(* ------------------------------------------------------------------ *)

\* a variant that reads the last entry of 'data' instead of the first
autotrader_extract_last_listing(api_data) ==
    IF ~has_listings(api_data) THEN [exc |-> "", value |-> EmptyListing]
    ELSE IF api_data.data[Len(api_data.data)].has_source
         THEN [exc |-> "", value |-> api_data.data[Len(api_data.data)].source]
         ELSE [exc |-> "KeyError: '_source'", value |-> EmptyListing]

\* autotrader_extract_vehicle_data(api_data): data[0]['_source'], a KeyError
\* when the first entry has no '_source'; None is the falsy EmptyListing
autotrader_extract_vehicle_data(api_data) ==
    IF ~has_listings(api_data) THEN [exc |-> "", value |-> EmptyListing]
    ELSE IF api_data.data[1].has_source
         THEN [exc |-> "", value |-> api_data.data[1].source]
         ELSE [exc |-> "KeyError: '_source'", value |-> EmptyListing]

\* carsguide_extract_vehicle_data(api_data)
carsguide_extract_vehicle_data(api_data) ==
    IF ~has_listings(api_data) THEN [exc |-> "", value |-> EmptyListing]
    ELSE IF api_data.data[1].has_source
         THEN [exc |-> "", value |-> api_data.data[1].source]
         ELSE [exc |-> "KeyError: '_source'", value |-> EmptyListing]

Outcome(exc, status, notes, url) ==
    [exc |-> exc, status |-> status, notes |-> notes, url |-> url]

\* a variant of "Process AutoTrader result" that tests 'data' in
\* autotrader_result without the guard on None, which raises a TypeError
autotrader_outcome_none_raises(car_dict, autotrader_result) ==
    IF autotrader_result.kind = "none"
    THEN Outcome("TypeError: argument of type 'NoneType' is not iterable", "",
                 EmptyNote, EmptyUrl)
    ELSE IF autotrader_result.kind = "nodata"
    THEN Outcome("", "API Error", Note("Failed to retrieve data from AutoTrader API"), EmptyUrl)
    ELSE IF autotrader_result.kind = "null"
    THEN Outcome("TypeError: len", "", EmptyNote, EmptyUrl)
    ELSE IF Len(autotrader_result.data) = 0
    THEN Outcome("", "Not Found", Note("Vehicle not found in AutoTrader API"), EmptyUrl)
    ELSE LET extracted == autotrader_extract_vehicle_data(autotrader_result)
             compared == autotrader_compare_data(car_dict, extracted.value)
         IN  IF extracted.exc # "" THEN Outcome(extracted.exc, "", EmptyNote, EmptyUrl)
             ELSE IF compared.exc # "" THEN Outcome(compared.exc, "", EmptyNote, EmptyUrl)
             ELSE Outcome("", compared.status,
                          IF compared.mismatched # <<>>
                          THEN JoinedNote(compared.mismatched) ELSE EmptyNote,
                          extract_vehicle_url(extracted.value, "autotrader"))

\* a variant that goes on to Carsguide with the AutoTrader fields not written
autotrader_outcome_unwritten(car_dict, autotrader_result) ==
    Outcome("", "", EmptyNote, EmptyUrl)

\* "Process AutoTrader result": the exception raised, or the three values
\* written to the row
autotrader_outcome(car_dict, autotrader_result) ==
    IF autotrader_result.kind \in {"list", "null"}
    THEN IF autotrader_result.kind = "null"
         THEN Outcome("TypeError: len", "", EmptyNote, EmptyUrl)
         ELSE IF Len(autotrader_result.data) = 0
         THEN Outcome("", "Not Found", Note("Vehicle not found in AutoTrader API"), EmptyUrl)
         ELSE LET extracted == autotrader_extract_vehicle_data(autotrader_result)
                  compared == autotrader_compare_data(car_dict, extracted.value)
              IN  IF extracted.exc # "" THEN Outcome(extracted.exc, "", EmptyNote, EmptyUrl)
                  ELSE IF compared.exc # "" THEN Outcome(compared.exc, "", EmptyNote, EmptyUrl)
                  ELSE Outcome("", compared.status,
                               IF compared.mismatched # <<>>
                               THEN JoinedNote(compared.mismatched) ELSE EmptyNote,
                               extract_vehicle_url(extracted.value, "autotrader"))
    ELSE Outcome("", "API Error", Note("Failed to retrieve data from AutoTrader API"), EmptyUrl)

\* "Process Carsguide result"
carsguide_outcome(car_dict, carsguide_result) ==
    IF carsguide_result.kind \in {"list", "null"}
    THEN IF carsguide_result.kind = "null"
         THEN Outcome("TypeError: len", "", EmptyNote, EmptyUrl)
         ELSE IF Len(carsguide_result.data) = 0
         THEN Outcome("", "Not Found", Note("Vehicle not found in Carsguide API"), EmptyUrl)
         ELSE LET extracted == carsguide_extract_vehicle_data(carsguide_result)
                  compared == carsguide_compare_data(car_dict, extracted.value)
              IN  IF extracted.exc # "" THEN Outcome(extracted.exc, "", EmptyNote, EmptyUrl)
                  ELSE IF compared.exc # "" THEN Outcome(compared.exc, "", EmptyNote, EmptyUrl)
                  ELSE Outcome("", compared.status,
                               IF compared.mismatched # <<>>
                               THEN JoinedNote(compared.mismatched) ELSE EmptyNote,
                               extract_vehicle_url(extracted.value, "carsguide"))
    ELSE Outcome("", "API Error", Note("Failed to retrieve data from Carsguide API"), EmptyUrl)

\* 'if save_results:' in the branch of a result with at least one listing
save_wanted(save_results, api_result) == save_results /\ has_listings(api_result)

\* a variant of save_json_file that lets the exception of open() or of
\* json.dump() through to its caller
save_json_file_raising(s, i, data, written) ==
    [site |-> s, index |-> i, data |-> data, returned |-> written,
     exc |-> IF written THEN "" ELSE "OSError"]

\* save_json_file(data, filename), called for provider s and row i: the
\* file is written and True is returned, or the exception of open() or of
\* json.dump() is caught and logged and False is returned
save_json_file(s, i, data, written) ==
    [site |-> s, index |-> i, data |-> data, returned |-> written, exc |-> ""]

\* the AutoTrader search has returned: its result is saved when asked for
\* and written to the row, then
\* add_delay(1, 2) and the Carsguide search is called; an exception is
\* caught by the except branch, which ends the iteration
ProcessAutotraderResult ==
    /\ pc = "process"
    /\ site = "autotrader"
    /\ \E written \in IF save_wanted(files.save_results, result) THEN BOOLEAN ELSE {FALSE} :
          LET wanted == save_wanted(files.save_results, result)
              saved == save_json_file(site, index, result, written)
              o == IF wanted /\ saved.exc # ""
                   THEN Outcome(saved.exc, "", EmptyNote, EmptyUrl)
                   ELSE autotrader_outcome(df[index], result)
          IN  /\ files' = IF wanted THEN [files EXCEPT !.calls = Append(@, saved)] ELSE files
              /\ IF o.exc # ""
                 THEN /\ df' = [df EXCEPT ![index] = write_error(df[index], o.exc)]
                      /\ index' = next_index(index)
                      /\ pc' = "row"
                      /\ trace' = <<>>
                      /\ UNCHANGED site
                 ELSE /\ df' = [df EXCEPT ![index] =
                                  [df[index] EXCEPT !.Autotrader = o.status,
                                                    !.Autotrader_Notes = o.notes,
                                                    !.Autotrader_URL = o.url]]
                      /\ site' = "carsguide"
                      /\ pc' = "bootstrap"
                      /\ trace' = <<SleepEvent(1, 2)>>
                      /\ UNCHANGED index
    /\ UNCHANGED <<loaded, result, user_agent, cookies, calls>>

\* the Carsguide search has returned: its result is written, then
\* add_delay(1, 2) and the next iteration
ProcessCarsguideResult ==
    /\ pc = "process"
    /\ site = "carsguide"
    /\ \E written \in IF save_wanted(files.save_results, result) THEN BOOLEAN ELSE {FALSE} :
          LET wanted == save_wanted(files.save_results, result)
              saved == save_json_file(site, index, result, written)
              o == IF wanted /\ saved.exc # ""
                   THEN Outcome(saved.exc, "", EmptyNote, EmptyUrl)
                   ELSE carsguide_outcome(df[index], result)
          IN  /\ files' = IF wanted THEN [files EXCEPT !.calls = Append(@, saved)] ELSE files
              /\ IF o.exc # ""
                 THEN /\ df' = [df EXCEPT ![index] = write_error(df[index], o.exc)]
                      /\ trace' = <<>>
                 ELSE /\ df' = [df EXCEPT ![index] =
                                  [df[index] EXCEPT !.Carsguide = o.status,
                                                    !.Carsguide_Notes = o.notes,
                                                    !.Carsguide_URL = o.url]]
                      /\ trace' = <<SleepEvent(1, 2)>>
    /\ index' = next_index(index)
    /\ pc' = "row"
    /\ UNCHANGED <<loaded, site, result, user_agent, cookies, calls>>

\* the loop is over: df.to_csv(output_path)
Finish ==
    /\ pc = "row"
    /\ index > NRows
    /\ pc' = "done"
    /\ UNCHANGED <<loaded, df, index, site, result, user_agent, cookies, trace, calls, files>>

\* process_csv_file called with save_results False or True
InitSave ==
    /\ loaded \in Frames
    /\ df = loaded
    /\ files \in {[save_results |-> b, calls |-> <<>>] : b \in BOOLEAN}
    /\ index = 1
    /\ pc = "row"
    /\ site = "autotrader"
    /\ result = ResultNone
    /\ user_agent = DefaultUserAgent
    /\ cookies = {}
    /\ trace = <<>>
    /\ cmp = CmpIdle
    /\ fallback = FallbackIdle
    /\ tx = TxIdle
    /\ args = ArgsIdle
    /\ history = <<>>
    /\ urlcall = UrlIdle
    /\ rerun = RerunIdle

(* ------------------------------------------------------------------ *)
(* The compare functions on their own                                  *)
(* ------------------------------------------------------------------ *)

CompareModels ==
    {PyStr(<<"R","i","o">>), PyStr(<<" ","R","I","O"," ">>),
     PyStr(<<"C","e","r","a","t","o">>), Absent, PyNaN, PyStr(<<>>)}

ComparePrices ==
    {PyInt(20000), PyStr(<<"2","0",",","0","0","0">>), PyStr(<<"P","O","A">>),
     PyFloat(20000), PyNaN, Absent, PyInt(0)}

\* the columns Transmission and Tansmission of a row
CompareTransmissions ==
    {<<Absent, Absent>>,
     <<PyStr(<<"A","u","t","o">>), Absent>>,
     <<Absent, PyStr(<<"M","a","n","u","a","l">>)>>}

\* the rows given to the compare functions
CompareRows ==
    {[Row(PyInt(2020), PyStr(<<"A","1">>)) EXCEPT
          !.Model = m, !.Price = p, !.Transmission = tr[1], !.Tansmission = tr[2]] :
        m \in CompareModels, p \in ComparePrices, tr \in CompareTransmissions}

CompareStatuses ==
    {Absent, PyNone, PyInt(1),
     PyStr(<<"l","i","v","e">>), PyStr(<<"L","i","v","e">>),
     PyStr(<<"s","o","l","d">>), PyStr(<<"S","o","l","d">>), PyStr(<<"S","O","L","D">>),
     PyStr(<<"o","n"," ","o","f","f","e","r">>), PyStr(<<"O","n"," ","O","f","f","e","r">>),
     PyStr(<<"o","n","_","o","f","f","e","r">>),
     PyStr(<<"r","e","s","e","r","v","e","d">>)}

CompareListingPrices ==
    {NoGroup, PriceGroup(PyInt(20100)), PriceGroup(PyInt(20101)),
     PriceGroup(PyStr(<<"1","9",",","8","9","9">>)),
     PriceGroup(PyStr(<<"P","O","A">>))}

CompareListingVehicles ==
    {NoGroup,
     [NoGroup EXCEPT !.present = TRUE,
                     !.transmission_type = PyStr(<<"a","u","t","o">>),
                     !.seats = PyInt(5)]}

\* the listings given to the compare functions
CompareListings ==
    {[EmptyListing EXCEPT !.status = st, !.model = m, !.price = pr, !.vehicle = v] :
        st \in CompareStatuses, m \in {PyStr(<<"R","i","o">>), Absent},
        pr \in CompareListingPrices, v \in CompareListingVehicles}

InitCompare ==
    /\ cmp \in {[phase |-> "input", csv_data |-> r, vehicle_data |-> v,
                 autotrader |-> NoResult, carsguide |-> NoResult] :
                    r \in CompareRows, v \in CompareListings}
    /\ fallback = FallbackIdle
    /\ tx = TxIdle
    /\ args = ArgsIdle
    /\ history = <<>>
    /\ urlcall = UrlIdle
    /\ rerun = RerunIdle
    /\ files = FilesIdle
    /\ loaded = <<>>
    /\ df = <<>>
    /\ index = 1
    /\ pc = "compare"
    /\ site = "autotrader"
    /\ result = ResultNone
    /\ user_agent = DefaultUserAgent
    /\ cookies = {}
    /\ trace = <<>>

\* autotrader_compare_data and carsguide_compare_data called on the same
\* arguments
Compare ==
    /\ cmp.phase = "input"
    /\ cmp' = [cmp EXCEPT
                  !.phase = "done",
                  !.autotrader = autotrader_compare_data(cmp.csv_data, cmp.vehicle_data),
                  !.carsguide = carsguide_compare_data(cmp.csv_data, cmp.vehicle_data)]
    /\ UNCHANGED <<vars, fallback, tx, args, history, rerun, urlcall, files>>

(* ------------------------------------------------------------------ *)
(* The compare functions called several times in one run               *)
(* ------------------------------------------------------------------ *)

\* the rows of a run: the models agree or differ, the price is within the
\* tolerance, beyond it, or a text
RepeatRows ==
    {[Row(PyInt(2020), PyStr(<<"A","1">>)) EXCEPT !.Model = m, !.Price = p] :
        m \in {PyStr(<<"R","i","o">>), PyStr(<<"C","e","r","a","t","o">>)},
        p \in {PyInt(20000), PyInt(30000), PyStr(<<"P","O","A">>)}}

\* the listings of a run: none, live, sold, and one whose status is no str
RepeatListings ==
    {EmptyListing, ListingLive, ListingSold, [ListingLive EXCEPT !.status = PyInt(1)]}

InitRepeat ==
    /\ history = <<>>
    /\ urlcall = UrlIdle
    /\ rerun = RerunIdle
    /\ files = FilesIdle
    /\ cmp = CmpIdle
    /\ fallback = FallbackIdle
    /\ tx = TxIdle
    /\ args = ArgsIdle
    /\ loaded = <<>>
    /\ df = <<>>
    /\ index = 1
    /\ pc = "reconcile"
    /\ site = "autotrader"
    /\ result = ResultNone
    /\ user_agent = DefaultUserAgent
    /\ cookies = {}
    /\ trace = <<>>

\* one more call of autotrader_compare_data and of carsguide_compare_data
\* in the run, on any row and listing
Reconcile ==
    /\ Len(history) < MaxEvaluations
    /\ \E r \in RepeatRows, v \in RepeatListings :
          history' = Append(history,
                            [csv_data |-> r, vehicle_data |-> v,
                             autotrader |-> autotrader_compare_data(r, v),
                             carsguide |-> carsguide_compare_data(r, v)])
    /\ UNCHANGED <<vars, cmp, fallback, tx, args, rerun, urlcall, files>>

(* ------------------------------------------------------------------ *)
(* build_fallback_search_params on its own                             *)
(* ------------------------------------------------------------------ *)

FallbackPrices ==
    {PyInt(20000), PyInt(50), PyInt(0), PyFloat(20000), PyNaN, Absent,
     PyStr(<<"2","0",",","0","0","0">>), PyStr(<<" ","5","0"," ">>),
     PyStr(<<"P","O","A">>), PyStr(<<>>)}

FallbackKMs ==
    {PyInt(5000), PyInt(0), PyNaN, Absent,
     PyStr(<<"5",",","0","0","0">>), PyStr(<<"n","/","a">>)}

\* the rows given to build_fallback_search_params
FallbackRows ==
    {[Row(PyInt(2020), PyStr(<<"A","1">>)) EXCEPT !.Price = p, !.KM = k, !.Make = m] :
        p \in FallbackPrices, k \in FallbackKMs, m \in {PyStr(<<"K","i","a">>), PyNaN}}

\* the argument source: None for AutoTrader, 'CG' for Carsguide
FallbackSources == {PyNone, PyStr(<<"C","G">>)}

InitFallback ==
    /\ fallback \in {[phase |-> "input", csv_row |-> r, dealer_id |-> DefaultDealerId,
                      source |-> s, params |-> NoParams] :
                         r \in FallbackRows, s \in FallbackSources}
    /\ cmp = CmpIdle
    /\ tx = TxIdle
    /\ args = ArgsIdle
    /\ history = <<>>
    /\ urlcall = UrlIdle
    /\ rerun = RerunIdle
    /\ files = FilesIdle
    /\ loaded = <<>>
    /\ df = <<>>
    /\ index = 1
    /\ pc = "params"
    /\ site = "autotrader"
    /\ result = ResultNone
    /\ user_agent = DefaultUserAgent
    /\ cookies = {}
    /\ trace = <<>>

BuildFallback ==
    /\ fallback.phase = "input"
    /\ fallback' = [fallback EXCEPT
                       !.phase = "done",
                       !.params = build_fallback_search_params(
                                      fallback.csv_row, fallback.dealer_id, fallback.source)]
    /\ UNCHANGED <<vars, cmp, tx, args, history, rerun, urlcall, files>>

(* ------------------------------------------------------------------ *)
(* The adapter of create_session under one session.get                 *)
(* ------------------------------------------------------------------ *)

\* a variant in which only the listed statuses are sent again, every error
\* being raised at once
retry_wanted_status_only(method, outcome) ==
    /\ method \in allowed_methods
    /\ outcome.kind = "response"
    /\ outcome.status \in status_forcelist

\* whether the Retry of create_session sends the request again after this
\* outcome: Retry.is_retry for a response; an error counts against total,
\* connect and read being left unset
retry_wanted(method, outcome) ==
    IF outcome.kind = "error" THEN TRUE
    ELSE /\ method \in allowed_methods
         /\ \/ outcome.status \in status_forcelist
            \/ outcome.retry_after /\ outcome.status \in RETRY_AFTER_STATUS_CODES

InitTransport ==
    /\ tx = [TxIdle EXCEPT !.phase = "sending"]
    /\ args = ArgsIdle
    /\ history = <<>>
    /\ urlcall = UrlIdle
    /\ rerun = RerunIdle
    /\ files = FilesIdle
    /\ cmp = CmpIdle
    /\ fallback = FallbackIdle
    /\ loaded = <<>>
    /\ df = <<>>
    /\ index = 1
    /\ pc = "get"
    /\ site = "autotrader"
    /\ result = ResultNone
    /\ user_agent = DefaultUserAgent
    /\ cookies = {}
    /\ trace = <<>>

\* one attempt of the request: the response is handed to the caller, or the
\* request is sent again with total lowered by one, or, total being used
\* up, the exception is raised to the caller
Attempt ==
    /\ tx.phase = "sending"
    /\ \E o \in AttemptOutcomes :
          tx' = [tx EXCEPT
                    !.attempts = @ + 1,
                    !.last = o,
                    !.total = IF retry_wanted(tx.method, o) THEN @ - 1 ELSE @,
                    !.phase = IF ~retry_wanted(tx.method, o) THEN "returned"
                              ELSE IF tx.total - 1 < 0 THEN "raised"
                              ELSE "sending"]
    /\ UNCHANGED <<vars, cmp, fallback, args, history, rerun, urlcall, files>>

(* ------------------------------------------------------------------ *)
(* extract_vehicle_url and the column its value is written to          *)
(* ------------------------------------------------------------------ *)

\* the values of the keys 'url' and 'url_cg' of a listing: no key, null,
\* the empty string, a relative path
UrlValues ==
    {Absent, PyNone, PyStr(<<>>), PyStr(<<"c","a","r","s","/","1">>),
     PyStr(<<"/","c","a","r","s","/","2">>)}

UrlCgValues == {Absent, PyNone, PyStr(<<>>), PyStr(<<"c","g","/","7">>)}

\* the listings given to extract_vehicle_url; the one without any key is
\* the empty dict
UrlListings ==
    {[EmptyListing EXCEPT !.url = u, !.url_cg = c, !.model = m] :
        u \in UrlValues, c \in UrlCgValues, m \in {Absent, PyStr(<<"R","i","o">>)}}

InitUrl ==
    /\ urlcall \in {[UrlIdle EXCEPT !.phase = "input", !.vehicle_data = v, !.site_type = s] :
                       v \in UrlListings, s \in {"autotrader", "carsguide"}}
    /\ cmp = CmpIdle
    /\ fallback = FallbackIdle
    /\ tx = TxIdle
    /\ args = ArgsIdle
    /\ history = <<>>
    /\ rerun = RerunIdle
    /\ files = FilesIdle
    /\ loaded = <<>>
    /\ df = <<>>
    /\ index = 1
    /\ pc = "url"
    /\ site = "autotrader"
    /\ result = ResultNone
    /\ user_agent = DefaultUserAgent
    /\ cookies = {}
    /\ trace = <<>>

\* at_url = extract_vehicle_url(autotrader_vehicle_data, 'autotrader') and
\* df.at[index, 'Autotrader URL'] = at_url, or the same for Carsguide
WriteUrl ==
    /\ urlcall.phase = "input"
    /\ urlcall' =
          IF urlcall.site_type = "autotrader"
          THEN [urlcall EXCEPT
                   !.phase = "done",
                   !.Autotrader_URL = extract_vehicle_url(urlcall.vehicle_data, "autotrader")]
          ELSE [urlcall EXCEPT
                   !.phase = "done",
                   !.Carsguide_URL = extract_vehicle_url(urlcall.vehicle_data, "carsguide")]
    /\ UNCHANGED <<vars, cmp, fallback, tx, args, history, rerun, files>>

(* ------------------------------------------------------------------ *)
(* process_csv_file run again on the file it wrote                     *)
(* ------------------------------------------------------------------ *)

\* df.to_csv(output_path, index=False): the text of a cell; NaN is written
\* as the empty field
to_csv_cell(v) ==
    CASE v.t = "nan" -> <<>>
      [] v.t = "int" -> int_to_str(v.n)
      [] v.t = "float" -> py_str(v)
      [] v.t = "str" -> v.s
      [] OTHER -> <<>>

\* the text of a float: digits, a point, digits
IsFloatText(t) ==
    \E k \in 1..Len(t) :
        /\ t[k] = "."
        /\ AllDigits(SubSeq(t, 1, k - 1))
        /\ AllDigits(SubSeq(t, k + 1, Len(t)))

\* the number before the point (the floats of the model have no fraction)
float_text_value(t) ==
    LET k == CHOOSE k \in 1..Len(t) : t[k] = "."
    IN  digits_value(SubSeq(t, 1, k - 1), 0)

\* pd.read_csv on the texts of one column: int64 when every field is an
\* integer, float64 with NaN for the empty fields when every field is a
\* number or empty, else object with NaN for the empty fields
read_csv_column(texts) ==
    IF \A i \in DOMAIN texts : AllDigits(texts[i])
    THEN [i \in DOMAIN texts |-> PyInt(digits_value(texts[i], 0))]
    ELSE IF \A i \in DOMAIN texts :
                texts[i] = <<>> \/ AllDigits(texts[i]) \/ IsFloatText(texts[i])
    THEN [i \in DOMAIN texts |->
            IF texts[i] = <<>> THEN PyNaN
            ELSE IF AllDigits(texts[i]) THEN PyFloat(digits_value(texts[i], 0))
            ELSE PyFloat(float_text_value(texts[i]))]
    ELSE [i \in DOMAIN texts |-> IF texts[i] = <<>> THEN PyNaN ELSE PyStr(texts[i])]

\* a column written and read again; a column that the file does not have
\* is not there afterwards either
column_read_back(cells) ==
    IF \E i \in DOMAIN cells : cells[i] = Absent THEN cells
    ELSE read_csv_column([i \in DOMAIN cells |-> to_csv_cell(cells[i])])

\* the float NaN that read_csv gives for an empty field of a result column
NaNStatus == "NaN"

NaNNote == [text |-> "NaN", arg |-> "", parts |-> <<>>]

NaNUrl == [domain |-> "NaN", path |-> <<>>]

\* the output file of a run read by the next run
file_read_back(frame) ==
    [i \in DOMAIN frame |->
        [Year |-> column_read_back([j \in DOMAIN frame |-> frame[j].Year])[i],
         StockNo |-> column_read_back([j \in DOMAIN frame |-> frame[j].StockNo])[i],
         Make |-> column_read_back([j \in DOMAIN frame |-> frame[j].Make])[i],
         Model |-> column_read_back([j \in DOMAIN frame |-> frame[j].Model])[i],
         Price |-> column_read_back([j \in DOMAIN frame |-> frame[j].Price])[i],
         KM |-> column_read_back([j \in DOMAIN frame |-> frame[j].KM])[i],
         Fuel |-> column_read_back([j \in DOMAIN frame |-> frame[j].Fuel])[i],
         Seats |-> column_read_back([j \in DOMAIN frame |-> frame[j].Seats])[i],
         Doors |-> column_read_back([j \in DOMAIN frame |-> frame[j].Doors])[i],
         Transmission |->
             column_read_back([j \in DOMAIN frame |-> frame[j].Transmission])[i],
         Tansmission |->
             column_read_back([j \in DOMAIN frame |-> frame[j].Tansmission])[i],
         Autotrader |-> IF frame[i].Autotrader = "" THEN NaNStatus
                        ELSE frame[i].Autotrader,
         Autotrader_Notes |-> IF frame[i].Autotrader_Notes = EmptyNote THEN NaNNote
                              ELSE frame[i].Autotrader_Notes,
         Autotrader_URL |-> IF frame[i].Autotrader_URL = EmptyUrl THEN NaNUrl
                            ELSE frame[i].Autotrader_URL,
         Carsguide |-> IF frame[i].Carsguide = "" THEN NaNStatus ELSE frame[i].Carsguide,
         Carsguide_Notes |-> IF frame[i].Carsguide_Notes = EmptyNote THEN NaNNote
                             ELSE frame[i].Carsguide_Notes,
         Carsguide_URL |-> IF frame[i].Carsguide_URL = EmptyUrl THEN NaNUrl
                           ELSE frame[i].Carsguide_URL]]

Page(c) == [raises |-> FALSE, status_code |-> c, body |-> BodyInvalid]

Answer(body) == [raises |-> FALSE, status_code |-> HttpOk, body |-> body]

\* what an upstream answers to the landing page, to the primary query and
\* to the fallback query of a provider
UpstreamPages == {Page(HttpOk), Page(HttpOther)}

UpstreamPrimaries ==
    {Answer(BodyList(<<Entry(ListingLive)>>)), Answer(BodyList(<<>>)),
     Answer(BodyList(<<EntryNoSource>>)), Page(HttpForbidden)}

UpstreamFallbacks ==
    {Answer(BodyList(<<Entry(ListingSold), EntryNoSource>>)), Answer(BodyList(<<>>)),
     [raises |-> TRUE, status_code |-> 0, body |-> BodyInvalid]}

\* the upstreams: a request of a kind to a provider is always answered in
\* the same way
Upstreams ==
    {[k \in {"autotrader", "carsguide"} \X {"bootstrap", "primary", "fallback"} |->
         LET a == IF k[1] = "autotrader" THEN at ELSE cg
         IN  IF k[2] = "bootstrap" THEN a[1] ELSE IF k[2] = "primary" THEN a[2] ELSE a[3]] :
       at \in UpstreamPages \X UpstreamPrimaries \X UpstreamFallbacks,
       cg \in UpstreamPages \X UpstreamPrimaries \X UpstreamFallbacks}

InitRerun ==
    /\ loaded \in Frames
    /\ df = loaded
    /\ rerun \in {[pass |-> 1, upstream |-> u, original |-> loaded, first |-> <<>>] :
                     u \in Upstreams}
    /\ index = 1
    /\ pc = "row"
    /\ site = "autotrader"
    /\ result = ResultNone
    /\ user_agent = DefaultUserAgent
    /\ cookies = {}
    /\ trace = <<>>
    /\ cmp = CmpIdle
    /\ fallback = FallbackIdle
    /\ tx = TxIdle
    /\ args = ArgsIdle
    /\ files = FilesIdle
    /\ history = <<>>
    /\ urlcall = UrlIdle

\* process_csv_file called on the file that the first call wrote: a new
\* session, the DataFrame read from the file, the six output columns found
\* in it and left as they are, and the loop from the first row
RunAgain ==
    /\ pc = "done"
    /\ rerun.pass = 1
    /\ rerun' = [rerun EXCEPT !.pass = 2, !.first = df]
    /\ loaded' = file_read_back(df)
    /\ df' = file_read_back(df)
    /\ index' = 1
    /\ pc' = "row"
    /\ site' = "autotrader"
    /\ result' = ResultNone
    /\ user_agent' = DefaultUserAgent
    /\ cookies' = {}
    /\ trace' = <<>>
    /\ UNCHANGED <<cmp, fallback, tx, args, history, urlcall, files>>

(* ------------------------------------------------------------------ *)
(* main: the single-vehicle path                                       *)
(* ------------------------------------------------------------------ *)

\* the values of --csv, --stock_no (type=str: None when not given, and the
\* empty string can be given), --api (choices) and --make
CsvArgs == {PyNone, PyStr(<<>>), PyStr(<<"c","a","r","s",".","c","s","v">>)}

StockNoArgs == {PyNone, PyStr(<<>>), PyStr(<<"2","0","2","0","A","1">>)}

ApiArgs == {"autotrader", "carsguide", "both"}

MakeArgs == {PyNone, PyStr(<<"K","i","a">>)}

\* vehicle_data.get('odometer', 'N/A') of the listing that is displayed
Odometers == {Absent, PyInt(35000)}

InitSingle ==
    /\ args \in [csv : CsvArgs, stock_no : StockNoArgs, api : ApiArgs, make : MakeArgs,
                 dealer_id : {DefaultDealerId}, save : BOOLEAN]
    /\ pc = "main"
    /\ site = "autotrader"
    /\ result = ResultNone
    /\ user_agent = DefaultUserAgent
    /\ cookies = {}
    /\ trace = <<>>
    /\ loaded = <<>>
    /\ df = <<>>
    /\ index = 1
    /\ cmp = CmpIdle
    /\ fallback = FallbackIdle
    /\ tx = TxIdle
    /\ history = <<>>
    /\ urlcall = UrlIdle
    /\ rerun = RerunIdle
    /\ files = FilesIdle

\* a variant in which both providers are searched whatever --api says
selected_apis_always_both(api) == {"autotrader", "carsguide"}

\* args.api in ['autotrader', 'both'] and args.api in ['carsguide', 'both']
selected_apis(api) ==
    (IF api \in {"autotrader", "both"} THEN {"autotrader"} ELSE {})
        \cup (IF api \in {"carsguide", "both"} THEN {"carsguide"} ELSE {})

\* the params of the primary query of a search called by main
single_primary_params(s) ==
    IF s = "autotrader"
    THEN autotrader_primary_params(args.stock_no.s, args.dealer_id)
    ELSE carsguide_primary_params(args.stock_no.s, args.dealer_id, args.make)

\* f"{value:,}": a ValueError unless the value is a number
format_raises(value) == value.t \notin {"int", "float"}

\* <site>_format_vehicle_details(vehicle_data): the text, or the ValueError
\* of the ',' format of the price or of the odometer
format_vehicle_details(vehicle_data, odometer) ==
    IF ~dict_truthy(vehicle_data) THEN ""
    ELSE IF format_raises(IF vehicle_data.price.present
                          THEN dict_get(vehicle_data.price.advertised_price)
                          ELSE PyStr(<<"N","/","A">>))
    THEN "ValueError: Cannot specify ',' with 's'."
    ELSE IF format_raises(IF odometer = Absent THEN PyStr(<<"N","/","A">>) ELSE odometer)
    THEN "ValueError: Cannot specify ',' with 's'."
    ELSE ""

\* what main does with the value a search returned: the exception that
\* ends main, or "" when main goes on
single_outcome(s, api_result, odometer) ==
    IF api_result.kind \in {"none", "nodata"} THEN ""
    ELSE IF api_result.kind = "null" THEN "TypeError: len"
    ELSE IF Len(api_result.data) = 0 THEN ""
    ELSE LET extracted == IF s = "autotrader"
                          THEN autotrader_extract_vehicle_data(api_result)
                          ELSE carsguide_extract_vehicle_data(api_result)
         IN  IF extracted.exc # "" THEN extracted.exc
             ELSE format_vehicle_details(extracted.value, odometer)

\* main up to the first search: process_csv_file when --csv is given, the
\* help text when there is no stock number, else create_session() and the
\* first provider that --api selects
MainStart ==
    /\ pc = "main"
    /\ IF truthy(args.csv)
       THEN pc' = "csv" /\ UNCHANGED site
       ELSE IF ~truthy(args.stock_no)
       THEN pc' = "help" /\ UNCHANGED site
       ELSE /\ pc' = "single bootstrap"
            /\ site' = IF "autotrader" \in selected_apis(args.api)
                       THEN "autotrader" ELSE "carsguide"
    /\ UNCHANGED <<loaded, df, index, result, user_agent, cookies, trace, calls, files>>

\* <site>_get_cookies(session) of a search called by main, and add_delay()
SingleGetCookies ==
    /\ pc = "single bootstrap"
    /\ \E r \in PageResponses :
          LET ok == ~r.raises /\ r.status_code = HttpOk
          IN  /\ trace' = trace \o <<GetEvent("bootstrap", DefaultUserAgent, NoParams, r)>>
                              \o (IF ok THEN <<SleepEvent(1, 3)>> ELSE <<>>)
              /\ cookies' = cookies_after(cookies, site, ok)
              /\ pc' = IF ok THEN "single primary" ELSE "single show"
              /\ result' = IF ok THEN result ELSE ResultNone
    /\ user_agent' = DefaultUserAgent
    /\ UNCHANGED <<loaded, df, index, site, calls, files>>

\* the primary query of a search called by main: csv_row is None, so a 200
\* with no listings is returned as it is
SinglePrimaryQuery ==
    /\ pc = "single primary"
    /\ \E r \in Responses :
          LET sent == GetEvent("primary", user_agent, single_primary_params(site), r)
          IN  IF ~r.raises /\ r.status_code = HttpForbidden
              THEN /\ trace' = trace \o <<sent, SleepEvent(5, 8),
                                          HeaderEvent(retry_user_agent(site))>>
                   /\ user_agent' = retry_user_agent(site)
                   /\ pc' = "single rebootstrap"
                   /\ UNCHANGED result
              ELSE /\ trace' = Append(trace, sent)
                   /\ result' = IF ~r.raises /\ r.status_code = HttpOk
                                     /\ r.body.kind # "invalid"
                                THEN r.body ELSE ResultNone
                   /\ pc' = "single show"
                   /\ UNCHANGED user_agent
    /\ UNCHANGED <<loaded, df, index, site, cookies, calls, files>>

\* <site>_get_cookies(session) after a 403
SingleReBootstrap ==
    /\ pc = "single rebootstrap"
    /\ \E r \in PageResponses :
          /\ trace' = Append(trace, GetEvent("bootstrap", DefaultUserAgent, NoParams, r))
          /\ cookies' = cookies_after(cookies, site, ~r.raises /\ r.status_code = HttpOk)
    /\ pc' = "single retry"
    /\ UNCHANGED <<loaded, df, index, site, result, user_agent, calls, files>>

\* the primary query sent again
SingleRetryQuery ==
    /\ pc = "single retry"
    /\ \E r \in Responses :
          /\ trace' = Append(trace, GetEvent("primary", user_agent,
                                             single_primary_params(site), r))
          /\ result' = IF ~r.raises /\ r.status_code = HttpOk /\ r.body.kind # "invalid"
                       THEN r.body ELSE ResultNone
    /\ pc' = "single show"
    /\ UNCHANGED <<loaded, df, index, site, user_agent, cookies, calls, files>>

\* the search has returned: main saves the result when --save is given and
\* there is a listing, prints the vehicle or "No vehicle found", then calls
\* the Carsguide search when --api selects it too; an exception of the
\* display is not caught and ends main
SingleShow ==
    /\ pc = "single show"
    /\ \E odometer \in Odometers :
          IF single_outcome(site, result, odometer) # ""
          THEN pc' = "raised" /\ UNCHANGED site
          ELSE IF site = "autotrader" /\ "carsguide" \in selected_apis(args.api)
          THEN pc' = "single bootstrap" /\ site' = "carsguide"
          ELSE pc' = "exit" /\ UNCHANGED site
    /\ IF args.save /\ has_listings(result)
       THEN \E written \in BOOLEAN :
               files' = [files EXCEPT
                            !.calls = Append(@, save_json_file(site, 1, result, written))]
       ELSE UNCHANGED files
    /\ UNCHANGED <<loaded, df, index, result, user_agent, cookies, trace, calls>>

Next ==
    \/ RowStart
    \/ GetCookies
    \/ PrimaryQuery
    \/ FallbackQuery
    \/ ReBootstrap
    \/ RetryQuery
    \/ ProcessAutotraderResult
    \/ ProcessCarsguideResult
    \/ Finish

Spec == Init /\ [][Next]_allvars

\* the batch when every call returns: process_csv_file is one thread, and
\* each of its steps ends once the request it waits for has returned or
\* raised (timeout=30 on every session.get)
\* FallbackQuery seen through the program counter: it is possible exactly at
\* "fallback" (some response is always served) and always returns to "process"
FallbackReturns == pc = "fallback" /\ pc' = "process"

\* the two Process steps seen through the program counter: one of them is
\* possible exactly at "process", and goes on to the next row or to Carsguide
ProcessReturns == pc = "process" /\ pc' \in {"row", "bootstrap"}

SpecFair ==
    /\ Init /\ [][Next]_allvars
    /\ WF_allvars(RowStart) /\ WF_allvars(GetCookies) /\ WF_allvars(PrimaryQuery)
    /\ WF_allvars(ReBootstrap) /\ WF_allvars(RetryQuery) /\ WF_allvars(Finish)
    /\ WF_pc(FallbackReturns) /\ WF_pc(ProcessReturns)

NextCompare == Compare

SpecCompare == InitCompare /\ [][NextCompare]_allvars

NextFallback == BuildFallback

SpecFallback == InitFallback /\ [][NextFallback]_allvars

NextTransport == Attempt

SpecTransport == InitTransport /\ [][NextTransport]_allvars

NextSave ==
    \/ RowStart
    \/ GetCookies
    \/ PrimaryQuery
    \/ FallbackQuery
    \/ ReBootstrap
    \/ RetryQuery
    \/ ProcessAutotraderResult
    \/ ProcessCarsguideResult
    \/ Finish

SpecSave == InitSave /\ [][NextSave]_allvars

NextRerun ==
    \/ RowStart
    \/ GetCookies
    \/ PrimaryQuery
    \/ FallbackQuery
    \/ ReBootstrap
    \/ RetryQuery
    \/ ProcessAutotraderResult
    \/ ProcessCarsguideResult
    \/ Finish
    \/ RunAgain

SpecRerun == InitRerun /\ [][NextRerun]_allvars

NextUrl == WriteUrl

SpecUrl == InitUrl /\ [][NextUrl]_allvars

NextRepeat == Reconcile

SpecRepeat == InitRepeat /\ [][NextRepeat]_allvars

NextSingle ==
    \/ MainStart
    \/ SingleGetCookies
    \/ SinglePrimaryQuery
    \/ SingleReBootstrap
    \/ SingleRetryQuery
    \/ SingleShow

SpecSingle == InitSingle /\ [][NextSingle]_allvars

(* ------------------------------------------------------------------ *)
(* Properties                                                          *)
(* ------------------------------------------------------------------ *)

Searching == pc \in {"bootstrap", "primary", "fallback", "rebootstrap", "retry", "process"}

\* the key of a loaded row is incomplete: a column is missing or a cell is empty
KeyIncomplete(row) ==
    \/ row.Year.t \in {"absent", "nan"}
    \/ row.StockNo.t \in {"absent", "nan"}

GetsOf(kind) == {i \in 1..Len(trace) : trace[i].ev = "get" /\ trace[i].kind = kind}

Gets == {i \in 1..Len(trace) : trace[i].ev = "get"}

FirstPrimary == CHOOSE i \in GetsOf("primary") : \A j \in GetsOf("primary") : i <= j

\* C1: a row whose Year or StockNo is missing (column absent or cell
\* empty) gets 'Not Searched' for both providers and empty URLs, and no
\* search runs for it.
C1_IncompleteKeyNotSearched ==
    /\ \A i \in 1..NRows :
          (i < index /\ KeyIncomplete(loaded[i])) =>
              /\ df[i].Autotrader = "Not Searched"
              /\ df[i].Carsguide = "Not Searched"
              /\ df[i].Autotrader_URL = EmptyUrl
              /\ df[i].Carsguide_URL = EmptyUrl
    /\ Searching => ~KeyIncomplete(loaded[index])

\* C2: when a search has returned, the fallback query was sent if and only
\* if a primary query of the search (the first one or the one sent again
\* after a 403) returned zero listings.
C2_FallbackIffPrimaryEmpty ==
    pc = "process" =>
        ((GetsOf("fallback") # {})
            <=> (\E i \in GetsOf("primary") :
                    trace[i].status_code = HttpOk /\ trace[i].count = 0))

\* a response with a status other than 200 that is not a 403 to the first
\* primary query
BadResponse(i) ==
    /\ trace[i].ev = "get"
    /\ trace[i].status_code \notin {0, HttpOk}
    /\ ~(trace[i].kind = "primary" /\ i = FirstPrimary
            /\ trace[i].status_code = HttpForbidden)

StatusOf(row, s) == IF s = "autotrader" THEN row.Autotrader ELSE row.Carsguide

\* C3: a non-200 response other than a 403 to the first primary query is
\* the last request of its search, and the search ends as 'API Error'.
C3_Non200IsApiError ==
    [][(pc = "process" /\ \E i \in 1..Len(trace) : BadResponse(i))
          => /\ \A i \in 1..Len(trace) : BadResponse(i) => \A j \in Gets : j <= i
             /\ StatusOf(df'[index], site) = "API Error"]_allvars

\* C4: once a bootstrap GET of a search did not return 200, or raised, no
\* further request of the search is sent and the search returns None.
C4_NoRequestAfterFailedBootstrap ==
    /\ \A i \in GetsOf("bootstrap") :
          trace[i].status_code # HttpOk => \A j \in Gets : j <= i
    /\ (pc = "process" /\ \E i \in GetsOf("bootstrap") : trace[i].status_code # HttpOk)
          => result = ResultNone

\* C5: a 403 to the first primary query is followed, in this order, by a
\* wait, a change of the user agent to another value, a bootstrap GET and
\* the primary query sent once more with the new user agent; a search sends
\* the primary query at most twice and nothing after the second one.
C5_ForbiddenRecovery ==
    /\ Cardinality(GetsOf("primary")) <= 2
    /\ GetsOf("primary") # {} =>
          LET k == FirstPrimary
          IN  IF trace[k].status_code = HttpForbidden
              THEN /\ Len(trace) >= k + 2
                   /\ Len(trace) <= k + 4
                   /\ trace[k + 1].ev = "sleep"
                   /\ trace[k + 2].ev = "header"
                   /\ trace[k + 2].ua # trace[k].ua
                   /\ Len(trace) >= k + 3 =>
                         trace[k + 3].ev = "get" /\ trace[k + 3].kind = "bootstrap"
                   /\ Len(trace) >= k + 4 =>
                         /\ trace[k + 4].ev = "get" /\ trace[k + 4].kind = "primary"
                         /\ trace[k + 4].ua = trace[k + 2].ua
                         /\ trace[k + 4].params = trace[k].params
                   /\ pc = "process" => Len(trace) = k + 4
              ELSE Cardinality(GetsOf("primary")) = 1

\* a search that met a 403 twice has returned
C5_Witness ==
    /\ pc = "process"
    /\ Cardinality(GetsOf("primary")) = 2
    /\ \A i \in GetsOf("primary") : trace[i].status_code = HttpForbidden

\* the result of a search on which the processing of the row raises: its
\* 'data' is null, or its first entry has no '_source'
Raising(body) ==
    \/ body.kind = "null"
    \/ body.kind = "list" /\ Len(body.data) > 0 /\ ~body.data[1].has_source

\* C6: when the processing of a row raises, in the AutoTrader stage or in
\* the Carsguide stage, the row gets 'Error' for both providers, the same
\* error message in both Notes and empty URLs; the rows before it are left
\* as they are and the loop goes on with the next row.
C6_ExceptionMarksBothAndContinues ==
    [][(pc = "process" /\ Raising(result))
          => /\ df'[index].Autotrader = "Error"
             /\ df'[index].Carsguide = "Error"
             /\ df'[index].Autotrader_Notes.text = "Error processing: "
             /\ df'[index].Autotrader_Notes.arg # ""
             /\ df'[index].Carsguide_Notes = df'[index].Autotrader_Notes
             /\ df'[index].Autotrader_URL = EmptyUrl
             /\ df'[index].Carsguide_URL = EmptyUrl
             /\ \A j \in 1..NRows : j # index => df'[j] = df[j]
             /\ index' = index + 1
             /\ pc' = "row"]_allvars

\* the first row ended in 'Error' and the second row was searched after it
C6_Witness ==
    /\ index > 2
    /\ df[1].Autotrader = "Error"
    /\ df[1].Carsguide = "Error"
    /\ df[1].Carsguide_Notes = ErrorNote("KeyError: '_source'")
    /\ df[2].Autotrader = "Found"
    /\ df[2].Carsguide = "Not Found"

StatusValues ==
    {"Found", "Mismatched", "Not Found", "Sold", "On Offer", "API Error",
     "Not Searched", "Error"}

InputFields(row) == <<row.Year, row.StockNo, row.Make, row.Model, row.Price, row.KM>>

\* C7: when the loop is over the output has one row per input row, in the
\* input order, and each row has a status of both providers from the list
\* of statuses.
C7_EveryRowHasBothStatuses ==
    pc = "done" =>
        /\ DOMAIN df = 1..NRows
        /\ \A i \in 1..NRows :
              /\ InputFields(df[i]) = InputFields(loaded[i])
              /\ df[i].Autotrader \in StatusValues
              /\ df[i].Carsguide \in StatusValues

\* a finished batch in which a row of the kinds 'API Error' and 'Found' is
\* followed by a row on which the processing raised
C7_Witness ==
    /\ pc = "done"
    /\ df[1].Autotrader = "API Error"
    /\ df[1].Carsguide = "Found"
    /\ df[2].Autotrader = "Error"
    /\ df[2].Carsguide = "Error"

\* the Carsguide status that the result of the Carsguide search alone
\* determines, for the listings of the batch
CarsguideStatusOf(body) ==
    IF body.kind \in {"none", "nodata"} THEN "API Error"
    ELSE IF Raising(body) THEN "Error"
    ELSE IF Len(body.data) = 0 THEN "Not Found"
    ELSE IF body.data[1].source = ListingSold THEN "Sold"
    ELSE "Found"

\* C8: a search of AutoTrader that returns None gives 'API Error' for
\* AutoTrader only: the Carsguide search of the same row is started, the
\* status it gives depends on its own result alone, and the loop goes on.
C8_ApiErrorAbortsOnlyItsLookup ==
    /\ [][(pc = "process" /\ site = "autotrader" /\ result = ResultNone)
             => /\ df'[index].Autotrader = "API Error"
                /\ df'[index].Carsguide = ""
                /\ index' = index
                /\ site' = "carsguide"
                /\ pc' = "bootstrap"]_allvars
    /\ [][(pc = "process" /\ site = "carsguide" /\ df[index].Autotrader = "API Error")
             => /\ df'[index].Carsguide = CarsguideStatusOf(result)
                /\ CarsguideStatusOf(result) # "Error"
                      => df'[index].Autotrader = "API Error"
                /\ index' = index + 1
                /\ pc' = "row"]_allvars

\* after 'API Error' for AutoTrader the first row got 'Found' for
\* Carsguide, and the second row is being searched
C8_Witness ==
    /\ index = 2
    /\ pc = "primary"
    /\ df[1].Autotrader = "API Error"
    /\ df[1].Carsguide = "Found"

\* the spellings of 'sold', of 'on offer' and of 'live' in any case
SoldSpellings ==
    {<<a, b, c, d>> : a \in {"s", "S"}, b \in {"o", "O"}, c \in {"l", "L"}, d \in {"d", "D"}}

OnOfferSpellings ==
    {<<a, b, " ", c, d, e, f, g>> :
        a \in {"o", "O"}, b \in {"n", "N"}, c \in {"o", "O"}, d \in {"f", "F"},
        e \in {"f", "F"}, f \in {"e", "E"}, g \in {"r", "R"}}

LiveSpellings ==
    {<<a, b, c, d>> : a \in {"l", "L"}, b \in {"i", "I"}, c \in {"v", "V"}, d \in {"e", "E"}}

Compared == cmp.phase = "done"

\* the row and the listing differ in a compared field
FieldsDiffer ==
    /\ cmp.csv_data.Model = PyStr(<<"C","e","r","a","t","o">>)
    /\ cmp.vehicle_data.model = PyStr(<<"R","i","o">>)
    /\ cmp.csv_data.Price = PyInt(20000)
    /\ cmp.vehicle_data.price = PriceGroup(PyInt(20101))

\* C9: for a listing whose status is 'sold' in any case, both compare
\* functions return ('Sold', []), whatever the compared fields are.
C9_SoldShortCircuit ==
    (Compared /\ cmp.vehicle_data.status.t = "str"
        /\ cmp.vehicle_data.status.s \in SoldSpellings)
        => /\ cmp.autotrader = [exc |-> "", status |-> "Sold", mismatched |-> <<>>]
           /\ cmp.carsguide = [exc |-> "", status |-> "Sold", mismatched |-> <<>>]

\* a listing marked 'SOLD' that differs from the row in model and price
C9_Witness ==
    /\ Compared
    /\ cmp.vehicle_data.status = PyStr(<<"S","O","L","D">>)
    /\ FieldsDiffer
    /\ cmp.autotrader.status = "Sold"
    /\ cmp.carsguide.status = "Sold"

ShortCircuited(r) == r.exc = "" /\ r.status \in {"Sold", "On Offer"} /\ r.mismatched = <<>>

FieldsCompared ==
    /\ Compared
    /\ cmp.autotrader.exc = "" /\ cmp.autotrader.status \in {"Found", "Mismatched"}
    /\ cmp.carsguide.exc = "" /\ cmp.carsguide.status \in {"Found", "Mismatched"}

\* the integer a price cell or a listing price reads as, thousands
\* separators removed; ok = FALSE when it is no integer
PriceRead(v) == py_int(str_remove_commas(str_strip(py_str(v))))

ListingPrice == IF cmp.vehicle_data.price.present
                THEN dict_get(cmp.vehicle_data.price.advertised_price)
                ELSE PyNone

\* both prices of the call read as integers
PricesParse ==
    /\ PriceRead(cmp.csv_data.Price).ok
    /\ ListingPrice # PyNone
    /\ PriceRead(ListingPrice).ok

\* the mismatch list r holds the Price discrepancy with the values p and q
PriceReported(r, p, q) ==
    \E i \in 1..Len(r.mismatched) :
        r.mismatched[i] = MismatchText("Price", int_to_str(p), int_to_str(q))

HasPriceEntry(r) == \E i \in 1..Len(r.mismatched) : r.mismatched[i].field = "Price"

\* C11: when the source price p and the listing price q both read as
\* integers, a Price discrepancy is reported, with p and q in it, if and
\* only if |p - q| > 100.
C11_PriceReportedIffOver100 ==
    (FieldsCompared /\ PricesParse) =>
        LET p == PriceRead(cmp.csv_data.Price).n
            q == PriceRead(ListingPrice).n
        IN  /\ (Abs(p - q) > 100) <=> HasPriceEntry(cmp.autotrader)
            /\ (Abs(p - q) > 100) <=> HasPriceEntry(cmp.carsguide)
            /\ HasPriceEntry(cmp.autotrader) => PriceReported(cmp.autotrader, p, q)
            /\ HasPriceEntry(cmp.carsguide) => PriceReported(cmp.carsguide, p, q)

\* the same equivalence for a source price that is not 0, which the
\* truth test of the field does not skip
NonZeroPriceReportedIffOver100 ==
    (FieldsCompared /\ PricesParse /\ PriceRead(cmp.csv_data.Price).n # 0) =>
        LET p == PriceRead(cmp.csv_data.Price).n
            q == PriceRead(ListingPrice).n
        IN  /\ (Abs(p - q) > 100) <=> PriceReported(cmp.autotrader, p, q)
            /\ (Abs(p - q) > 100) <=> PriceReported(cmp.carsguide, p, q)

Built == fallback.phase = "done"

\* the number a range parameter holds, read back from its text
ParamValue(param) == py_int(param.s).n

\* a range pair as the claim C12 describes it: both bounds at value -/+ 100
\* when the cell reads as an integer, else neither bound
RangePairAsStated(cell, from, to) ==
    IF PriceRead(cell).ok
    THEN /\ from.t = "str" /\ ParamValue(from) = PriceRead(cell).n - 100
         /\ to.t = "str" /\ ParamValue(to) = PriceRead(cell).n + 100
    ELSE from = Absent /\ to = Absent

\* the parameters that do not depend on Price and KM are produced
OtherParamsProduced ==
    /\ fallback.params.dealer_id = fallback.dealer_id
    /\ fallback.params.ipLookup # Absent
    /\ fallback.params.sorting_variation # Absent
    /\ fallback.params.paginate # Absent
    /\ fallback.params.model = PyStr(<<"R","i","o">>)
    /\ fallback.params.manu_year = PyStr(<<"2","0","2","0">>)

\* C12: for a Price (a KM) that reads as an integer the range pair is the
\* value - 100 and the value + 100; for one that is absent or does not read
\* as an integer both bounds are left out; the other parameters are
\* produced in every case.
C12_RangesAreValuePlusMinus100 ==
    Built =>
        /\ RangePairAsStated(fallback.csv_row.Price,
                             fallback.params.priceFrom, fallback.params.priceTo)
        /\ RangePairAsStated(fallback.csv_row.KM,
                             fallback.params.odometerFrom, fallback.params.odometerTo)
        /\ OtherParamsProduced

\* the same with the cell 0 counted among the cells that give no range
RangePairOfNonZero(cell, from, to) ==
    IF PriceRead(cell).ok /\ PriceRead(cell).n # 0
    THEN /\ from.t = "str" /\ ParamValue(from) = PriceRead(cell).n - 100
         /\ to.t = "str" /\ ParamValue(to) = PriceRead(cell).n + 100
    ELSE from = Absent /\ to = Absent

NonZeroRangesAreValuePlusMinus100 ==
    Built =>
        /\ RangePairOfNonZero(fallback.csv_row.Price,
                              fallback.params.priceFrom, fallback.params.priceTo)
        /\ RangePairOfNonZero(fallback.csv_row.KM,
                              fallback.params.odometerFrom, fallback.params.odometerTo)
        /\ OtherParamsProduced

ComparedFields ==
    {"Fuel", "Model", "Seats", "Doors", "Transmission", "Tansmission", "Price"}

\* the mismatch list r holds an entry of the field f
HasEntry(r, f) == \E i \in 1..Len(r.mismatched) : r.mismatched[i].field = f

\* a source value that is absent or empty: the column is missing, the cell
\* is empty (pandas loads it as NaN) or the value is the empty string
AbsentOrEmpty(v) == v = Absent \/ v = PyNaN \/ v = PyStr(<<>>)

\* C13: a compared field whose source value is absent or empty gives no
\* discrepancy, and a record whose compared fields are all absent or empty
\* is 'Found' against any listing that reaches the field comparison.
C13_AbsentOrEmptyFieldSkipped ==
    FieldsCompared =>
        /\ \A f \in ComparedFields :
              AbsentOrEmpty(cmp.csv_data[f]) =>
                  ~HasEntry(cmp.autotrader, f) /\ ~HasEntry(cmp.carsguide, f)
        /\ (\A f \in ComparedFields : AbsentOrEmpty(cmp.csv_data[f])) =>
              cmp.autotrader.status = "Found" /\ cmp.carsguide.status = "Found"

\* the same for the source values the truth test of the field rejects: a
\* missing column and the empty string, but not NaN
MissingOrEmptyTextSkipped ==
    FieldsCompared =>
        \A f \in ComparedFields :
            (cmp.csv_data[f] = Absent \/ cmp.csv_data[f] = PyStr(<<>>)) =>
                ~HasEntry(cmp.autotrader, f) /\ ~HasEntry(cmp.carsguide, f)

\* the listing goes on to the field comparison: it is no empty dict, and
\* its status is missing or null, or a text other than 'sold' and 'on offer'
StatusLetsCompare ==
    /\ cmp.vehicle_data # EmptyListing
    /\ \/ cmp.vehicle_data.status \in {Absent, PyNone}
       \/ /\ cmp.vehicle_data.status.t = "str"
          /\ cmp.vehicle_data.status.s \notin SoldSpellings \cup OnOfferSpellings

\* the Price of the row and the price of the listing are both there, and
\* one of them does not read as an integer
PriceUnreadable ==
    /\ ~AbsentOrEmpty(cmp.csv_data.Price)
    /\ ListingPrice # PyNone
    /\ ~PriceRead(cmp.csv_data.Price).ok \/ ~PriceRead(ListingPrice).ok

\* the result r: no exception, 'Mismatched', the entry "Price: Couldn't
\* compare", and the Model still compared
ParseFailureRecorded(r) ==
    /\ r.exc = ""
    /\ r.status = "Mismatched"
    /\ \E i \in 1..Len(r.mismatched) : r.mismatched[i] = CouldntCompareText("Price")
    /\ (cmp.csv_data.Model = PyStr(<<"C","e","r","a","t","o">>)
           /\ cmp.vehicle_data.model = PyStr(<<"R","i","o">>))
          => HasEntry(r, "Model")

\* C14: when the Price of the row or the price of the listing does not
\* read as an integer, the call does not raise, the outcome is 'Mismatched'
\* with the entry "Price: Couldn't compare", and the other fields are still
\* compared.
C14_ParseFailureIsAMismatch ==
    (Compared /\ StatusLetsCompare /\ PriceUnreadable) =>
        ParseFailureRecorded(cmp.autotrader) /\ ParseFailureRecorded(cmp.carsguide)

\* the same for a Price of the row that is not 0
NonZeroParseFailureIsAMismatch ==
    (Compared /\ StatusLetsCompare /\ PriceUnreadable /\ cmp.csv_data.Price # PyInt(0)) =>
        ParseFailureRecorded(cmp.autotrader) /\ ParseFailureRecorded(cmp.carsguide)

\* the pairs (source text, listing text) of the calls that are equal once
\* trimmed and case-folded
SameText ==
    {<< <<"R","i","o">>, <<"R","i","o">> >>,
     << <<" ","R","I","O"," ">>, <<"R","i","o">> >>,
     << <<"A","u","t","o">>, <<"a","u","t","o">> >>}

\* the trimmed source texts of the calls
Trimmed(s) == IF s = <<" ","R","I","O"," ">> THEN <<"R","I","O">> ELSE s

ListingTransmission ==
    IF cmp.vehicle_data.vehicle.present
    THEN dict_get(cmp.vehicle_data.vehicle.transmission_type)
    ELSE PyNone

\* the entry of a text field f in the result r is there exactly when the
\* source text src and the listing text api differ, and it holds both texts
TextFieldAsStated(r, f, src, api) ==
    (src.t = "str" /\ src.s # <<>> /\ api.t = "str") =>
        /\ HasEntry(r, f) <=> (<<src.s, api.s>> \notin SameText)
        /\ HasEntry(r, f) =>
              \E i \in 1..Len(r.mismatched) :
                  r.mismatched[i] = MismatchText(f, Trimmed(src.s), api.s)

OutcomeAsStated(r) ==
    /\ r.exc = ""
    /\ r.status = (IF r.mismatched # <<>> THEN "Mismatched" ELSE "Found")
    /\ \A i \in 1..Len(r.mismatched) : r.mismatched[i].field \in ComparedFields
    /\ TextFieldAsStated(r, "Model", cmp.csv_data.Model, dict_get(cmp.vehicle_data.model))
    /\ TextFieldAsStated(r, "Transmission", cmp.csv_data.Transmission, ListingTransmission)
    /\ TextFieldAsStated(r, "Tansmission", cmp.csv_data.Tansmission, ListingTransmission)

\* C15: for a listing that reaches the field comparison the outcome is
\* 'Mismatched' when the mismatch list is not empty and 'Found' when it
\* is; a text field has an entry exactly when the source text and the
\* listing text differ after trimming and case folding.
C15_OutcomeFollowsDiscrepancies ==
    (Compared /\ StatusLetsCompare) =>
        OutcomeAsStated(cmp.autotrader) /\ OutcomeAsStated(cmp.carsguide)

\* a live listing: the Model ' RIO ' agrees with 'Rio', the Tansmission
\* 'Manual' differs from 'auto'
C15_Witness ==
    /\ Compared
    /\ cmp.vehicle_data.status = PyStr(<<"l","i","v","e">>)
    /\ cmp.csv_data.Model = PyStr(<<" ","R","I","O"," ">>)
    /\ cmp.vehicle_data.model = PyStr(<<"R","i","o">>)
    /\ cmp.csv_data.Tansmission = PyStr(<<"M","a","n","u","a","l">>)
    /\ cmp.csv_data.Price = Absent
    /\ cmp.autotrader.status = "Mismatched"
    /\ cmp.autotrader.mismatched =
          <<MismatchText("Tansmission", <<"M","a","n","u","a","l">>, <<"a","u","t","o">>)>>
    /\ cmp.carsguide = cmp.autotrader

\* the request at place i of the trace comes after a sleep, with no other
\* request between the sleep and it
AfterSleep(i) ==
    \E j \in 1..(i - 1) :
        /\ trace[j].ev = "sleep"
        /\ \A k \in (j + 1)..(i - 1) : trace[k].ev # "get"

\* C16: every request comes after a pacing sleep, with no other request
\* between that sleep and it, so that no two requests are sent back to
\* back. The request at the head of a trace, before which the trace holds
\* nothing, is left aside.
C16_SleepBeforeEveryRequest ==
    \A i \in Gets : i > 1 => AfterSleep(i)

\* the requests other than the primary query sent again after a 403 come
\* after a sleep
SleepBeforeEveryRequestButRetry ==
    \A i \in Gets :
        (i > 1 /\ ~(trace[i].kind = "primary" /\ i # FirstPrimary)) => AfterSleep(i)

\* the number of requests of the running search
RequestCount == Cardinality(Gets)

\* C17: the Carsguide search of a row runs only when the AutoTrader search
\* of the row has returned and its three fields are written, the AutoTrader
\* search runs before anything of Carsguide is written for the row, the
\* turn goes to Carsguide only when the AutoTrader result is processed and
\* back to AutoTrader only at the head of a row, and a step of a search
\* sends one request.
C17_ProvidersStrictlySequential ==
    /\ [](Searching =>
            IF site = "carsguide"
            THEN df[index].Autotrader \in StatusValues \ {"Not Searched", "Error"}
            ELSE df[index].Autotrader = "" /\ df[index].Carsguide = "")
    /\ [][(site' # site) =>
             IF site = "autotrader"
             THEN /\ pc = "process" /\ pc' = "bootstrap" /\ index' = index
                  /\ df'[index].Autotrader # ""
             ELSE pc = "row"]_allvars
    /\ [][(pc \in {"bootstrap", "primary", "fallback", "rebootstrap", "retry"})
            => (site' = site /\ index' = index /\ df' = df
                  /\ RequestCount' = RequestCount + 1)]_allvars

\* the Carsguide search of the second row is about to send its primary
\* query, the AutoTrader status of the row being written
C17_Witness ==
    /\ index = 2
    /\ site = "carsguide"
    /\ pc = "primary"
    /\ df[2].Autotrader = "Found"
    /\ df[2].Carsguide = ""

\* C18 as stated: a request of a provider is never sent with a session
\* that holds cookies written by the bootstrap of the other provider.
C18_SessionOwnedByOneProvider ==
    (Searching /\ Gets # {}) => cookies \subseteq {site}

\* C18 as amended: the run has one session, which both providers use in
\* turn: the jar is never emptied or replaced, a landing page GET adds the
\* cookies of the provider that is searching and of no other, and no other
\* step touches the jar.
C18_OneSessionSharedInTurn ==
    /\ [](cookies \subseteq {"autotrader", "carsguide"})
    /\ [][/\ cookies \subseteq cookies'
          /\ cookies' \subseteq cookies \cup {site}
          /\ cookies' # cookies => pc \in {"bootstrap", "rebootstrap"}]_allvars

\* the Carsguide search sends its primary query with a session that holds
\* the cookies of both providers
C18_Witness ==
    /\ site = "carsguide"
    /\ pc = "primary"
    /\ cookies = {"autotrader", "carsguide"}

\* C19 as stated: a request is sent at most 6 times; it is sent again only
\* after a response whose status is listed; a response with another status,
\* and a failure of any other kind, is handed to the caller at that attempt.
C19_ResendOnlyOnListedStatus ==
    /\ tx.attempts <= 6
    /\ (tx.phase = "sending" /\ tx.attempts >= 1) =>
          tx.last.kind = "response" /\ tx.last.status \in status_forcelist
    /\ (tx.last.kind = "response" /\ tx.last.status \notin status_forcelist) =>
          tx.phase = "returned"
    /\ tx.last.kind = "error" => tx.phase = "raised"

\* C19 as amended: a request is sent at most 6 times; it is sent again
\* only after a response whose status is listed, after an attempt that
\* failed without a response, or after a 413 that carries Retry-After;
\* any other response is handed to the caller at that attempt; an
\* exception is raised only when the sixth attempt ends like that too.
C19_ResendOnListedStatusOrError ==
    /\ tx.attempts <= 6
    /\ tx.total = RetryTotal - (IF tx.phase = "returned" THEN tx.attempts - 1 ELSE tx.attempts)
    /\ (tx.phase = "sending" /\ tx.attempts >= 1) =>
          \/ tx.last.kind = "response" /\ tx.last.status \in status_forcelist
          \/ tx.last.kind = "error"
          \/ tx.last.kind = "response" /\ tx.last.status = 413 /\ tx.last.retry_after
    /\ (tx.last.kind = "response" /\ tx.last.status \in {200, 404}) =>
          tx.phase = "returned"
    /\ tx.phase = "raised" => tx.attempts = 6 /\ tx.last.status \notin {200, 404}
    /\ tx.phase = "returned" => tx.last.kind = "response" /\ tx.last.status \notin status_forcelist

\* the request is answered 200 at the sixth attempt
C19_Witness ==
    /\ tx.phase = "returned"
    /\ tx.attempts = 6
    /\ tx.last.status = 200

(* ------------------------------------------------------------------ *)
(* C20                                                                 *)
(* ------------------------------------------------------------------ *)

\* the providers that --api names
ProvidersNamed == IF args.api = "both" THEN {"autotrader", "carsguide"} ELSE {args.api}

\* a primary query answered 200 with no listings
EmptyPrimaries ==
    {i \in GetsOf("primary") : trace[i].status_code = HttpOk /\ trace[i].count = 0}

\* C20: in the single-vehicle path of main (a stock number and no CSV) no
\* fallback query is ever sent, even when the primary query returns zero
\* listings: the request that follows such a primary query, if there is
\* one, is the landing page of the next provider. Requests go only to the
\* providers that --api selects, and when neither a CSV nor a stock number
\* is given no request is made at all.
C20_SinglePathNoFallbackOnlySelected ==
    /\ [](GetsOf("fallback") = {})
    /\ [](\A i \in EmptyPrimaries :
             \A j \in Gets : j > i /\ (\A k \in Gets : k <= i \/ k >= j)
                                => trace[j].kind = "bootstrap")
    /\ [][(pc = "single primary" /\ trace' # trace
              /\ Len(trace') \in EmptyPrimaries')
            => (pc' = "single show" /\ ListingCount(result') = 0)]_allvars
    /\ [][(RequestCount' > RequestCount)
            => (site \in ProvidersNamed /\ site' = site
                  /\ truthy(args.stock_no) /\ ~truthy(args.csv))]_allvars
    /\ []((~truthy(args.csv) /\ ~truthy(args.stock_no)) => (Gets = {} /\ pc \in {"main", "help"}))

\* both providers selected, both primary queries answered with zero
\* listings, and main has ended after four requests
C20_Witness ==
    /\ pc = "exit"
    /\ args.api = "both"
    /\ truthy(args.stock_no) /\ ~truthy(args.csv)
    /\ Cardinality(EmptyPrimaries) = 2
    /\ RequestCount = 4
    /\ GetsOf("fallback") = {}

(* ------------------------------------------------------------------ *)
(* C21                                                                 *)
(* ------------------------------------------------------------------ *)

\* the listings that can follow the first one in a response
OtherListings ==
    {<<>>, <<EntryNoSource>>, <<Entry(ListingLive)>>, <<Entry(ListingSold)>>,
     <<Entry(ListingLive), Entry(ListingSold)>>}

\* the three result fields of provider s in a row
ResultFields(row, s) ==
    IF s = "autotrader"
    THEN <<row.Autotrader, row.Autotrader_Notes, row.Autotrader_URL>>
    ELSE <<row.Carsguide, row.Carsguide_Notes, row.Carsguide_URL>>

\* the row after the result of provider s was processed is the one that
\* the response body gives
WrittenFrom(before, after, s, body) ==
    LET o == IF s = "autotrader" THEN autotrader_outcome(before, body)
                                 ELSE carsguide_outcome(before, body)
    IN  IF o.exc # ""
        THEN after.Autotrader = "Error" /\ after.Carsguide = "Error"
        ELSE ResultFields(after, s) = <<o.status, o.notes, o.url>>

\* C21: when the response that a search returned (primary or fallback) has
\* several listings, the status, notes and URL written for the provider are
\* those of the first listing: every response with the same first listing,
\* whatever follows it, gives the fields that were written.
C21_OnlyFirstListingUsed ==
    [][(pc = "process" /\ has_listings(result))
         => \A others \in OtherListings :
               WrittenFrom(df[index], df'[index], site,
                           BodyList(<<result.data[1]>> \o others))]_allvars

\* a response of two listings was processed and the fields of the first
\* one, a sold vehicle, were written
C21_Witness ==
    /\ pc = "bootstrap"
    /\ site = "carsguide"
    /\ result.kind = "list"
    /\ Len(result.data) = 2
    /\ result.data[2] # result.data[1]
    /\ df[index].Autotrader = "Sold"

(* ------------------------------------------------------------------ *)
(* C22                                                                 *)
(* ------------------------------------------------------------------ *)

SamePair(a, b) == a.csv_data = b.csv_data /\ a.vehicle_data = b.vehicle_data

InputColumns(row) ==
    <<row.Year, row.StockNo, row.Make, row.Model, row.Price, row.KM, row.Fuel,
      row.Seats, row.Doors, row.Transmission, row.Tansmission>>

\* C23: processing a record never changes its input fields: at every
\* moment of the batch, after lookups, reconciliations and failures alike,
\* each record has the input fields it was loaded with, so that only its
\* six result fields can differ from the loaded input; and a step that
\* writes to the table writes to the record being processed and to no
\* other record.
C23_InputFieldsNeverChange ==
    /\ [](\A i \in 1..NRows : InputColumns(df[i]) = InputColumns(loaded[i]))
    /\ [][loaded' = loaded]_allvars
    /\ [][(df' # df) => /\ index \in 1..NRows
                        /\ DOMAIN df' = DOMAIN df
                        /\ \A j \in (1..NRows) \ {index} : df'[j] = df[j]]_allvars

\* a finished batch in which the processing of the first record raised and
\* that of the second one wrote a result of a reconciliation and of a
\* failed lookup
C23_Witness ==
    /\ pc = "done"
    /\ df[1].Autotrader = "Error"
    /\ df[2].Autotrader = "Found"
    /\ df[2].Carsguide = "API Error"
    /\ \A i \in 1..NRows : df[i] # loaded[i]

(* ------------------------------------------------------------------ *)
(* C24                                                                 *)
(* ------------------------------------------------------------------ *)

\* the six result columns of a row
ResultColumns(row) ==
    <<row.Autotrader, row.Autotrader_Notes, row.Autotrader_URL,
      row.Carsguide, row.Carsguide_Notes, row.Carsguide_URL>>

\* the last request of a trace
LastGet(tr) ==
    tr[CHOOSE i \in 1..Len(tr) :
          tr[i].ev = "get" /\ \A j \in (i + 1)..Len(tr) : tr[j].ev # "get"]

\* C24: batch processing is idempotent: process_csv_file run on the file
\* that a first run wrote, against an upstream that answers as it did in
\* the first run, ends with result columns equal to those of the first
\* run; and every query of the second run is the query built from the
\* record as the first run loaded it, so that the result values of the
\* first run have no influence on it.
C24_RerunReproducesResultColumns ==
    /\ []((rerun.pass = 2 /\ pc = "done")
            => \A i \in 1..NRows : ResultColumns(df[i]) = ResultColumns(rerun.first[i]))
    /\ [][(rerun.pass = 2 /\ RequestCount' > RequestCount)
            => LET sent == LastGet(trace')
               IN  \/ sent.kind = "bootstrap"
                   \/ sent.kind = "primary"
                        /\ sent.params = primary_params(site, rerun.original[index])
                   \/ sent.kind = "fallback"
                        /\ sent.params = fallback_params(site, rerun.original[index])]_allvars

\* the second run has ended on a file in which the first run had left
\* results of a fallback query, of a failed lookup and of an exception
C24_Witness ==
    /\ rerun.pass = 2
    /\ pc = "done"
    /\ rerun.first[1].Autotrader = "Sold"
    /\ rerun.first[1].Carsguide = "API Error"
    /\ loaded[1].Autotrader_Notes = NaNNote
    /\ df[1].Carsguide = "API Error"

(* ------------------------------------------------------------------ *)
(* C25                                                                 *)
(* ------------------------------------------------------------------ *)

ProviderDomain(s) ==
    IF s = "autotrader" THEN "https://www.autotrader.com.au/"
    ELSE "https://www.carsguide.com.au/"

\* a relative path that is there and not empty
NonEmptyPath(v) == v.t = "str" /\ v.s # <<>>

\* the URL of a listing as stated: the domain and the 'url', else the
\* 'url_cg', else nothing
UrlAsStated(vehicle_data, s) ==
    IF vehicle_data = EmptyListing THEN EmptyUrl
    ELSE IF NonEmptyPath(vehicle_data.url)
    THEN [domain |-> ProviderDomain(s), path |-> vehicle_data.url.s]
    ELSE IF NonEmptyPath(vehicle_data.url_cg)
    THEN [domain |-> ProviderDomain(s), path |-> vehicle_data.url_cg.s]
    ELSE EmptyUrl

\* the URL in the column of provider s
UrlColumn(s) == IF s = "autotrader" THEN urlcall.Autotrader_URL ELSE urlcall.Carsguide_URL

\* C25: extract_vehicle_url returns the fixed domain of the provider
\* followed by the relative path of the listing (its 'url' when that is not
\* empty, else its 'url_cg'), and the empty string when there is no listing
\* or neither path; a URL written to the column of a provider starts with
\* the domain of that provider, and the column of the other provider is
\* not written.
C25_UrlIsDomainThenPath ==
    urlcall.phase = "done" =>
        /\ UrlColumn(urlcall.site_type) = UrlAsStated(urlcall.vehicle_data, urlcall.site_type)
        /\ UrlColumn(urlcall.site_type) # EmptyUrl
              => UrlColumn(urlcall.site_type).domain = ProviderDomain(urlcall.site_type)
        /\ \A s \in {"autotrader", "carsguide"} \ {urlcall.site_type} :
              UrlColumn(s) = EmptyUrl

\* a listing with an empty 'url' and a 'url_cg', written to the Carsguide
\* column
C25_Witness ==
    /\ urlcall.phase = "done"
    /\ urlcall.site_type = "carsguide"
    /\ urlcall.vehicle_data.url = PyStr(<<>>)
    /\ urlcall.vehicle_data.url_cg = PyStr(<<"c","g","/","7">>)
    /\ urlcall.Carsguide_URL =
          [domain |-> "https://www.carsguide.com.au/", path |-> <<"c","g","/","7">>]

(* ------------------------------------------------------------------ *)
(* C26                                                                 *)
(* ------------------------------------------------------------------ *)

LastCall(f) == f.calls[Len(f.calls)]

\* C26: a raw provider response is persisted only when saving was asked
\* for (save_results) and the response has at least one listing: each call
\* of save_json_file is made while such a result is processed, with that
\* result as its data. A failure of the persistence step is not fatal: the
\* fields written for the record are those that the result gives, whether
\* the file was written or not, and a record whose file could not be
\* written is not marked 'Error' for it.
C26_SaveOnlyOnRequestAndNonFatal ==
    /\ [](~files.save_results => files.calls = <<>>)
    /\ [](\A k \in 1..Len(files.calls) :
             files.calls[k].data.kind = "list" /\ Len(files.calls[k].data.data) >= 1)
    /\ [][(files' # files)
            => /\ pc = "process" /\ files.save_results /\ has_listings(result)
               /\ files'.save_results = files.save_results
               /\ Len(files'.calls) = Len(files.calls) + 1
               /\ SubSeq(files'.calls, 1, Len(files.calls)) = files.calls
               /\ LastCall(files').site = site
               /\ LastCall(files').index = index
               /\ LastCall(files').data = result]_allvars
    /\ [][(pc = "process") => WrittenFrom(df[index], df'[index], site, result)]_allvars
    /\ [][(files' # files /\ ~LastCall(files').returned /\ result.data[1].has_source)
            => /\ ResultFields(df'[index], site)[1] \in {"Found", "Sold"}
               /\ df'[index].Autotrader # "Error"
               /\ df'[index].Carsguide # "Error"]_allvars

\* the response of AutoTrader could not be saved and that of Carsguide was
\* saved, and the record has the status of both listings
C26_Witness ==
    /\ pc = "row"
    /\ index = 2
    /\ Len(files.calls) = 2
    /\ ~files.calls[1].returned /\ files.calls[1].site = "autotrader"
    /\ files.calls[2].returned /\ files.calls[2].site = "carsguide"
    /\ df[1].Autotrader = "Found"
    /\ df[1].Carsguide = "Sold"

(* ------------------------------------------------------------------ *)
(* C27                                                                 *)
(* ------------------------------------------------------------------ *)

\* the search requests of the running lookup: primary, retried primary
\* and fallback
SearchRequests == GetsOf("primary") \cup GetsOf("fallback")

\* C27: every search request of the Carsguide client (primary, retried
\* primary and fallback) carries source=CG, no search request of the
\* AutoTrader client carries a source parameter, and every search request
\* of both clients carries the dealer id.
C27_SourceDiscriminator ==
    \A i \in SearchRequests :
        /\ trace[i].params.dealer_id = PyStr(<<"1","2","7","5","1">>)
        /\ IF site = "carsguide"
           THEN trace[i].params.source = PyStr(<<"C","G">>)
           ELSE trace[i].params.source = Absent

\* a Carsguide lookup that sent its primary and its fallback query
C27_Witness ==
    /\ site = "carsguide"
    /\ pc = "process"
    /\ Cardinality(GetsOf("primary")) = 1
    /\ Cardinality(GetsOf("fallback")) = 1
    /\ \A i \in SearchRequests : trace[i].params.source = PyStr(<<"C","G">>)

(* ------------------------------------------------------------------ *)
(* C28                                                                 *)
(* ------------------------------------------------------------------ *)

IsGet(e) == e.ev = "get"

\* the requests of the running lookup, in order
Requests == SelectSeq(trace, IsGet)

RequestKinds == [i \in 1..Len(Requests) |-> Requests[i].kind]

\* the state in which a lookup that has returned ends: Found when it
\* returns listings, NotFound when it returns an empty list of listings,
\* ApiError when it returns nothing that has a list of listings
Terminal ==
    IF has_listings(result) THEN "Found"
    ELSE IF result.kind = "list" THEN "NotFound"
    ELSE "ApiError"

\* the paths of the state machine, a failed request leading to ApiError
\* from any state; the last argument is the set of states in which a
\* lookup that was blocked and retried may end
FollowsStateMachine(afterRetry) ==
    \/ /\ RequestKinds = <<"bootstrap">>
       /\ Requests[1].status_code # HttpOk
       /\ Terminal = "ApiError"
    \/ /\ RequestKinds = <<"bootstrap", "primary">>
       /\ Requests[1].status_code = HttpOk
       /\ Terminal \in {"Found", "ApiError"}
    \/ /\ RequestKinds = <<"bootstrap", "primary", "fallback">>
       /\ Requests[1].status_code = HttpOk
       /\ Requests[2].status_code = HttpOk /\ Requests[2].count = 0
       /\ Terminal \in {"Found", "NotFound", "ApiError"}
    \/ /\ RequestKinds = <<"bootstrap", "primary", "bootstrap", "primary">>
       /\ Requests[1].status_code = HttpOk
       /\ Requests[2].status_code = HttpForbidden
       /\ Terminal \in afterRetry

\* C28: every provider lookup follows the state machine Bootstrapped ->
\* PrimarySent -> (Found | FallbackSent -> (Found | NotFound)) | BotBlocked
\* -> Retried -> (Found | ApiError): the requests of a lookup that has
\* returned are one of its paths, a lookup that was blocked and retried
\* ends in Found or ApiError only, and no request is sent once the lookup
\* has reached Found, NotFound or ApiError.
C28_LookupStateMachine ==
    /\ [](pc = "process" => FollowsStateMachine({"Found", "ApiError"}))
    /\ [][(pc = "process") => Gets' = {}]_allvars

\* the same with NotFound among the states in which a retried lookup ends
LookupStateMachineWithRetriedNotFound ==
    /\ [](pc = "process" => FollowsStateMachine({"Found", "ApiError", "NotFound"}))
    /\ [][(pc = "process") => Gets' = {}]_allvars

(* ------------------------------------------------------------------ *)
(* C29                                                                 *)
(* ------------------------------------------------------------------ *)

\* both statuses of a row are written
BothWritten(row) == row.Autotrader # "" /\ row.Carsguide # ""

\* C29: provided every request returns or raises, process_csv_file ends
\* the loop over the records, having processed each record once and in the
\* order of the input: the loop goes from a record to the next one only,
\* an iteration that ends moves on to the next record, a request for a
\* record is sent only when the result fields of all records before it are
\* written, the records before the current one are not written again and
\* the records after it are as loaded.
C29_LoopTerminatesInOrder ==
    /\ <>(pc = "done")
    /\ [][pc' = "done" => (index' = NRows + 1 /\ \A i \in 1..NRows : BothWritten(df'[i]))]_allvars
    /\ [][index' \in {index, index + 1}]_allvars
    /\ [][(pc # "row" /\ pc' = "row") => index' = index + 1]_allvars
    /\ [][Gets' # {} => \A j \in 1..(index' - 1) : BothWritten(df'[j])]_allvars
    /\ [][\A j \in 1..NRows : (j < index \/ j > index') => df'[j] = df[j]]_allvars
    /\ [][\A j \in 1..NRows : j > index' => df'[j] = loaded'[j]]_allvars

\* the loop is over: the first record ended with an exception, the second
\* one was searched at both providers after it
C29_Witness ==
    /\ pc = "done"
    /\ index = NRows + 1
    /\ df[1].Autotrader = "Error"
    /\ df[2].Autotrader = "Found"
    /\ df[2].Carsguide = "Not Found"

(* ------------------------------------------------------------------ *)
(* C30: the requests of one lookup                                      *)
(* ------------------------------------------------------------------ *)

IsPrefix(s, t) == Len(s) <= Len(t) /\ s = SubSeq(t, 1, Len(s))

\* C30: a provider lookup sends at most four requests, whatever the
\* responses are: its requests are the beginning of bootstrap, primary,
\* fallback or of bootstrap, primary, bootstrap, primary; a fallback query
\* and the retry after a 403 are never both in one lookup, and the fallback
\* query is sent at most once.
C30_AtMostFourRequests ==
    /\ Len(Requests) <= 4
    /\ \/ IsPrefix(RequestKinds, <<"bootstrap", "primary", "fallback">>)
       \/ IsPrefix(RequestKinds, <<"bootstrap", "primary", "bootstrap", "primary">>)
    /\ Cardinality(GetsOf("fallback")) <= 1
    /\ ~(GetsOf("fallback") # {} /\ Cardinality(GetsOf("bootstrap")) > 1)
    /\ (pc = "fallback" => RequestKinds = <<"bootstrap", "primary">>)

\* a lookup that has returned after four requests, the last one answered
\* with no listing, on a row whose AutoTrader lookup found nothing
C30_Witness ==
    /\ pc = "process" /\ site = "carsguide"
    /\ RequestKinds = <<"bootstrap", "primary", "bootstrap", "primary">>
    /\ Requests[4].status_code = HttpOk /\ Requests[4].count = 0
    /\ df[index].Autotrader = "Not Found"

(* ------------------------------------------------------------------ *)
(* C31: 'Error' and 'Not Searched' are statuses of the whole record     *)
(* ------------------------------------------------------------------ *)

\* the rows whose iteration has ended
Processed == {j \in 1..NRows : j < index}

PairedStatus(row, status) == row.Autotrader = status <=> row.Carsguide = status

\* C31: once a record has been processed its AutoTrader status is 'Error'
\* exactly when its Carsguide status is 'Error', and 'Not Searched' exactly
\* when its Carsguide status is 'Not Searched'; an exception in the
\* Carsguide stage puts 'Error' in place of the AutoTrader result that was
\* already written for the record.
C31_ErrorAndNotSearchedArePaired ==
    /\ [](\A j \in Processed : /\ PairedStatus(df[j], "Error")
                                /\ PairedStatus(df[j], "Not Searched"))
    /\ [][(pc = "process" /\ site = "carsguide" /\ df'[index].Carsguide = "Error")
            => /\ df[index].Autotrader \notin {"", "Error", "Not Searched"}
               /\ df'[index].Autotrader = "Error"
               /\ index' = index + 1]_allvars

\* the first record has been processed and ended in the except branch after
\* its Carsguide lookup had started: the session holds Carsguide's cookies
C31_Witness ==
    /\ pc = "row" /\ index = 2
    /\ df[1].Autotrader = "Error" /\ df[1].Carsguide = "Error"
    /\ "carsguide" \in cookies

(* ------------------------------------------------------------------ *)
(* C32: a field the listing does not carry                              *)
(* ------------------------------------------------------------------ *)

HasValue(v) == v \notin {Absent, PyNone}

\* the listing has a value at the path the CSV field is compared with
ListingCarries(vehicle_data, csv_field) ==
    CASE csv_field = "Model" -> HasValue(vehicle_data.model)
      [] csv_field = "Price" ->
            vehicle_data.price.present /\ HasValue(vehicle_data.price.advertised_price)
      [] csv_field = "Fuel" ->
            vehicle_data.vehicle.present /\ HasValue(vehicle_data.vehicle.fuel_type)
      [] csv_field = "Seats" ->
            vehicle_data.vehicle.present /\ HasValue(vehicle_data.vehicle.seats)
      [] csv_field = "Doors" ->
            vehicle_data.vehicle.present /\ HasValue(vehicle_data.vehicle.doors)
      [] csv_field \in {"Transmission", "Tansmission"} ->
            vehicle_data.vehicle.present /\ HasValue(vehicle_data.vehicle.transmission_type)

IsLive(vehicle_data) ==
    /\ vehicle_data.status.t = "str"
    /\ str_lower(vehicle_data.status.s) = <<"l","i","v","e">>

OnlyCarriedFieldsReported(res) ==
    \A i \in 1..Len(res.mismatched) :
        ListingCarries(cmp.vehicle_data, res.mismatched[i].field)

ReconciledFound(res) == res.exc = "" /\ res.status = "Found" /\ res.mismatched = <<>>

\* C32: a compared field for which the listing has no value at the mapped
\* path is never among the discrepancies, whatever the source record holds
\* in it; a live listing that has none of the compared fields reconciles
\* to 'Found' against every source record.
C32_MissingListingFieldIsNoDiscrepancy ==
    cmp.phase = "done" =>
        /\ OnlyCarriedFieldsReported(cmp.autotrader)
        /\ OnlyCarriedFieldsReported(cmp.carsguide)
        /\ (IsLive(cmp.vehicle_data)
              /\ \A f \in ComparedFields : ~ListingCarries(cmp.vehicle_data, f))
            => (ReconciledFound(cmp.autotrader) /\ ReconciledFound(cmp.carsguide))

\* a live listing with no model, no price group and no vehicle group,
\* compared with a record that has a model, a price and a transmission
C32_Witness ==
    /\ cmp.phase = "done"
    /\ IsLive(cmp.vehicle_data)
    /\ \A f \in ComparedFields : ~ListingCarries(cmp.vehicle_data, f)
    /\ cmp.csv_data.Model = PyStr(<<"C","e","r","a","t","o">>)
    /\ cmp.csv_data.Price = PyInt(20000)
    /\ cmp.csv_data.Transmission = PyStr(<<"A","u","t","o">>)
    /\ ReconciledFound(cmp.autotrader) /\ ReconciledFound(cmp.carsguide)

====
